---- MODULE Spec2Model ----
(***************************************************************************)
(* Model of research_agent.py: SearchEngine (provider selection, the       *)
(* Google client, the DuckDuckGo text and news clients with their retry    *)
(* loops) and the pagination part of AIResearchAgent.research().           *)
(*                                                                         *)
(* One top-level call (research(), search() or news_search()) runs on an   *)
(* engine that may already have served earlier searches.  The providers    *)
(* are the environment: every request either raises one of the exceptions  *)
(* below or hands back a list of raw hits.                                 *)
(***************************************************************************)
EXTENDS Integers, Sequences, FiniteSets, TLC

(***************************************************************************)
(* Bounds of the model                                                     *)
(***************************************************************************)
MaxPage == 3          \* page argument of research() ranges over -1..MaxPage
MaxPerPage == 3       \* per_page, max_sources range over 0..MaxPerPage (0 = None)
MaxHits == 21         \* a provider holds 0..MaxHits results for a query
MaxBackoffAttempt == 20   \* _retry_backoff() is tried on 0..MaxBackoffAttempt
MaxCalls == 2         \* calls made one after the other on one engine
MaxBotPage == 3       \* page_next is pressed up to page MaxBotPage

(***************************************************************************)
(* Program constants                                                       *)
(***************************************************************************)
ResultCap == 20           \* research_agent.py:238, 288
GooglePageSize == 10      \* research_agent.py:161, 171
GoogleMaxRequests == 3    \* research_agent.py:161
RetryAttempts == 5        \* research_agent.py:240, 290
DefaultPerPage == 5       \* research_agent.py:377
DefaultSources == 3       \* bot.py:42
BackoffCap == 16          \* research_agent.py:142, seconds
MinSleep == 1             \* research_agent.py:144, seconds
FixedSleep == 1           \* research_agent.py:271, 279, seconds

NONE == "<None>"          \* Python's None (os.environ.get of an unset name)

Queries == {"ai"}
ApiKeys == {NONE, "AIzaKey"}
CseIds == {NONE, "Your_Custom_Search_Engine_ID_here", "017:cx"}
EngineArgs == {"auto", "Google", "duckduckgo"}
\* max_results of a direct search() or news_search() call: around the clamp
\* to 1..20 and around the 10 hits of one Google request
MaxResultsArgs == {0, 1, 10, 11, 20, 21}
Depths == {"quick", "standard", "deep"}
Threads == {1, 2}
NoClient == -1
ScrapeOutcomes == {"success", "failure", "raise"}
AnalysisTexts == {"summary", "AI analysis unavailable."}

Min(a, b) == IF a < b THEN a ELSE b
Max(a, b) == IF a > b THEN a ELSE b

(***************************************************************************)
(* Python helpers                                                          *)
(***************************************************************************)
\* truthiness of an Optional[str]
Truthy(v) == v # NONE /\ v # ""

\* truthiness of a list
NonEmpty(l) == Len(l) > 0

\* str.lower() on the ASCII letters
LowerChar(c) ==
    CASE c = "A" -> "a" [] c = "B" -> "b" [] c = "C" -> "c" [] c = "D" -> "d"
      [] c = "E" -> "e" [] c = "F" -> "f" [] c = "G" -> "g" [] c = "H" -> "h"
      [] c = "I" -> "i" [] c = "J" -> "j" [] c = "K" -> "k" [] c = "L" -> "l"
      [] c = "M" -> "m" [] c = "N" -> "n" [] c = "O" -> "o" [] c = "P" -> "p"
      [] c = "Q" -> "q" [] c = "R" -> "r" [] c = "S" -> "s" [] c = "T" -> "t"
      [] c = "U" -> "u" [] c = "V" -> "v" [] c = "W" -> "w" [] c = "X" -> "x"
      [] c = "Y" -> "y" [] c = "Z" -> "z" [] OTHER -> c

\* the first n characters of s, lowered
RECURSIVE LowerUpTo(_, _)
LowerUpTo(s, n) ==
    IF n = 0 THEN ""
    ELSE LowerUpTo(s, n - 1) \o LowerChar(SubSeq(s, n, n))

Lower(s) == LowerUpTo(s, Len(s))

\* the `in` operator on strings: sub occurs in s
Contains(s, sub) ==
    \E i \in 1..(Len(s) - Len(sub) + 1) : SubSeq(s, i, i + Len(sub) - 1) = sub

\* s[lo:hi] for 0 <= lo (Python slice: both ends are clipped to the list)
PySlice(s, lo, hi) ==
    LET h == Min(Max(hi, 0), Len(s))
        l == Min(Max(lo, 0), Len(s))
    IN  IF l >= h THEN <<>> ELSE SubSeq(s, l + 1, h)

\* dict.get(key, default)
Get(d, key, default) == IF key \in DOMAIN d THEN d[key] ELSE default

\* a or b on strings and None
StrOr(a, b) == IF Truthy(a) THEN a ELSE b

(***************************************************************************)
(* Exceptions the providers raise, and the except clauses that catch them  *)
(***************************************************************************)
Bases(cls) ==
    CASE cls = "RatelimitException" ->
            {"RatelimitException", "DuckDuckGoSearchException", "Exception"}
      [] cls = "DuckDuckGoSearchException" ->
            {"DuckDuckGoSearchException", "Exception"}
      [] cls = "HTTPError" -> {"HTTPError", "RequestException", "Exception"}
      [] cls = "ConnectionError" ->
            {"ConnectionError", "RequestException", "Exception"}
      [] OTHER -> {cls, "Exception"}

IsInstance(e, cls) == cls \in Bases(e.cls)

DdgExceptions ==
    { [cls |-> "RatelimitException", msg |-> "https://duckduckgo.com 202 Ratelimit", status |-> 0],
      [cls |-> "DuckDuckGoSearchException", msg |-> "HTTP 429 Too Many Requests", status |-> 0],
      [cls |-> "DuckDuckGoSearchException", msg |-> "operation timed out", status |-> 0],
      [cls |-> "ConnectionError", msg |-> "connection reset", status |-> 0] }

GoogleExceptions ==
    { [cls |-> "HTTPError", msg |-> "429 Client Error", status |-> 429],
      [cls |-> "HTTPError", msg |-> "403 Client Error", status |-> 403],
      [cls |-> "ConnectionError", msg |-> "connection refused", status |-> 0],
      [cls |-> "ValueError", msg |-> "Expecting value", status |-> 0] }

(***************************************************************************)
(* except clauses: which handler of a try statement catches e              *)
(***************************************************************************)
\* mutant: _search_duckduckgo without its except Exception clause
MutDdgClause(e) ==
    IF IsInstance(e, "DuckDuckGoSearchException") THEN "ddg" ELSE "uncaught"

\* _search_duckduckgo: except DuckDuckGoSearchException / except Exception
DdgClause(e) ==
    IF IsInstance(e, "DuckDuckGoSearchException") THEN "ddg"
    ELSE IF IsInstance(e, "Exception") THEN "generic"
    ELSE "uncaught"

\* news_search: except DuckDuckGoSearchException / except Exception
NewsClause(e) ==
    IF IsInstance(e, "DuckDuckGoSearchException") THEN "ddg"
    ELSE IF IsInstance(e, "Exception") THEN "generic"
    ELSE "uncaught"

\* mutant: the handlers return the records collected before the failure
MutGoogleFailure(results) == results

\* _search_google: both handlers end with return []
GoogleFailure(results) == <<>>

\* _search_google: except requests.exceptions.HTTPError / except Exception
GoogleClause(e) ==
    IF IsInstance(e, "HTTPError") THEN "http"
    ELSE IF IsInstance(e, "Exception") THEN "generic"
    ELSE "uncaught"

\* news_search, the try around the generic fallback search: except Exception
NewsFallbackClause(e) ==
    IF IsInstance(e, "Exception") THEN "generic" ELSE "uncaught"

\* "Ratelimit" in str(e) or "429" in str(e)
IsRateLimit(e) == Contains(e.msg, "Ratelimit") \/ Contains(e.msg, "429")

(***************************************************************************)
(* Raw hits of the providers.  Hit k of a provider is its k-th result for  *)
(* the query; the shape of the raw dict varies with k (alternative and     *)
(* missing keys).                                                          *)
(***************************************************************************)
GoogleItem(k) ==
    CASE k % 3 = 1 -> [title |-> "g" \o ToString(k),
                       link |-> "https://g/" \o ToString(k),
                       snippet |-> "about " \o ToString(k)]
      [] k % 3 = 2 -> [link |-> "https://g/" \o ToString(k),
                       snippet |-> "about " \o ToString(k)]
      [] OTHER     -> [title |-> "g" \o ToString(k),
                       link |-> "https://g/" \o ToString(k)]

DdgHit(k) ==
    CASE k % 3 = 1 -> [title |-> "d" \o ToString(k),
                       href |-> "https://d/" \o ToString(k),
                       body |-> "about " \o ToString(k)]
      [] k % 3 = 2 -> [title |-> "d" \o ToString(k),
                       url |-> "https://d/" \o ToString(k),
                       snippet |-> "about " \o ToString(k)]
      [] OTHER     -> [href |-> "",
                       url |-> "https://d/" \o ToString(k),
                       body |-> ""]

NewsHit(k) ==
    CASE k % 2 = 1 -> [title |-> "n" \o ToString(k),
                       url |-> "https://n/" \o ToString(k),
                       body |-> "about " \o ToString(k),
                       date |-> "2024-01-0" \o ToString(k % 10),
                       source |-> "wire"]
      [] OTHER     -> [title |-> "n" \o ToString(k),
                       url |-> "https://n/" \o ToString(k),
                       snippet |-> "about " \o ToString(k)]

\* the result lists the providers hold: hit k is at position k
GoogleItems == [k \in 1..(MaxHits + 1) |-> GoogleItem(k)]
DdgHits == [k \in 1..(MaxHits + 1) |-> DdgHit(k)]
NewsHits == [k \in 1..(MaxHits + 1) |-> NewsHit(k)]

\* the raw hits at positions from..to of a provider's result list
Hits(held, from, to) == IF to < from THEN <<>> ELSE SubSeq(held, from, to)

(***************************************************************************)
(* Result normalisation                                                    *)
(***************************************************************************)
NormalizeGoogle(item) ==
    [title |-> Get(item, "title", "Untitled"),
     url |-> Get(item, "link", ""),
     snippet |-> Get(item, "snippet", "")]

NormalizeDdg(r) ==
    [title |-> Get(r, "title", ""),
     url |-> StrOr(Get(r, "href", ""), Get(r, "url", "")),
     snippet |-> StrOr(Get(r, "body", ""), Get(r, "snippet", ""))]

NormalizeNews(r) ==
    [title |-> Get(r, "title", ""),
     url |-> Get(r, "url", ""),
     snippet |-> StrOr(Get(r, "body", ""), Get(r, "snippet", "")),
     date |-> Get(r, "date", ""),
     source |-> Get(r, "source", "")]

\* the keys the loop of each client reads from a raw hit, and the keys of
\* the dict it builds
Providers == {"google", "text", "news"}
RawKeys(provider) ==
    CASE provider = "google" -> {"title", "link", "snippet"}
      [] provider = "text" -> {"title", "href", "url", "body", "snippet"}
      [] provider = "news" -> {"title", "url", "body", "snippet", "date",
                               "source"}
RecordKeys(provider) ==
    IF provider = "news" THEN {"title", "url", "snippet", "date", "source"}
    ELSE {"title", "url", "snippet"}

\* the values of a key of a raw hit: a JSON string or null
RawValues == {"", "text", NONE}

\* the raw hits with some of these keys
RawHits(provider) ==
    UNION {[present -> RawValues] : present \in SUBSET RawKeys(provider)}

\* the dict a client builds from one raw hit
Normalize(provider, raw) ==
    CASE provider = "google" -> NormalizeGoogle(raw)
      [] provider = "text" -> NormalizeDdg(raw)
      [] provider = "news" -> NormalizeNews(raw)

\* the for loops that build results from the raw hits
NormalizeAllGoogle(items) == [i \in 1..Len(items) |-> NormalizeGoogle(items[i])]
NormalizeAllDdg(raw) == [i \in 1..Len(raw) |-> NormalizeDdg(raw[i])]
NormalizeAllNews(raw) == [i \in 1..Len(raw) |-> NormalizeNews(raw[i])]

(***************************************************************************)
(* Decisions and computations of SearchEngine and AIResearchAgent          *)
(***************************************************************************)
\* mutant: the preference is compared with a string lower() never yields
MutForcedDuckDuckGo(engine) == engine = "DuckDuckGo"

\* search(): self.preferred_engine == "duckduckgo"
ForcedDuckDuckGo(engine) == engine = "duckduckgo"

\* search(): self.preferred_engine == "google"
ForcedGoogle(engine) == engine = "google"

\* mutant: only the API key is looked at
MutGoogleConfigured(key, cse) == Truthy(key)

\* search(): self.google_api_key and self.google_cse_id
GoogleConfigured(key, cse) == Truthy(key) /\ Truthy(cse)

\* mutant: the test on google_results is inverted
MutGoogleAcceptedInverted(results) == ~NonEmpty(results)

\* mutant: whatever _search_google() returned is returned
MutGoogleAcceptedAlways(results) == TRUE

\* search(): if google_results: return google_results
GoogleAccepted(results) == NonEmpty(results)

\* mutant: the placeholder CSE id is taken for a real one
MutGoogleShortCircuit(key, cse) ==
    \/ ~Truthy(key)
    \/ ~Truthy(cse)

\* _search_google(): not key or not cse, or the placeholder CSE id
GoogleShortCircuit(key, cse) ==
    \/ ~Truthy(key)
    \/ ~Truthy(cse)
    \/ Contains(Lower(cse), "your_custom_search_engine_id")

\* mutant: the number of requests is not limited to 3
MutNumRequests(m) == (m + 9) \div GooglePageSize

\* _search_google(): num_requests
NumRequests(m) == Min((m + 9) \div GooglePageSize, GoogleMaxRequests)

\* _search_google(): params['start'] and params['num'] of request i
StartIndex(i) == i * GooglePageSize + 1
RequestNum(m, collected) == Min(GooglePageSize, m - collected)

\* mutant: the loop goes on after a page without items
MutGoogleStops(items, results, m, i, n) ==
    \/ Len(results) >= m
    \/ i + 1 >= n

\* _search_google(): the loop ends after request i of n: no items, enough
\* results, or the last request
GoogleStops(items, results, m, i, n) ==
    \/ ~NonEmpty(items)
    \/ Len(results) >= m
    \/ i + 1 >= n

\* _search_google(): return results[:max_results]
GoogleReturn(results, m) == PySlice(results, 0, m)

\* _search_duckduckgo(), news_search(): max(1, min(max_results, 20))
Clamp(m) == Max(1, Min(m, ResultCap))

\* SearchEngine._backends_cycle
Backends == <<"api", "html", "lite">>

\* _search_duckduckgo(): the backend of an attempt
Backend(idx) == Backends[(idx % Len(Backends)) + 1]

\* mutant: the loop has one attempt more
MutRetries(attempt) == attempt < RetryAttempts

\* _search_duckduckgo(), news_search(): if attempt < 4
Retries(attempt) == attempt < RetryAttempts - 1

\* mutant: the backend index does not wrap around
MutNextBackendNoWrap(idx) == idx + 1

\* mutant: the rate limit handler leaves the backend where it is
MutNextBackend(idx) == idx

\* _search_duckduckgo(): backend switch on a rate limit
NextBackend(idx) == (idx + 1) % 3

(***************************************************************************)
(* Sleeps.  Durations are in half seconds.  random.uniform(-0.5, 0.5) is   *)
(* any of its two ends and its middle.                                     *)
(***************************************************************************)
Jitters == {-1, 0, 1}

HalfSeconds(sec) == 2 * sec

\* mutant: the floor of one second is missing
MutBackoffDelay(attempt, jitter) ==
    HalfSeconds(Min(BackoffCap, 2 ^ attempt)) + jitter

\* _retry_backoff(): sleep_time = max(1, min(16, 2 ** attempt) + jitter)
BackoffDelay(attempt, jitter) ==
    Max(HalfSeconds(MinSleep),
        HalfSeconds(Min(BackoffCap, 2 ^ attempt)) + jitter)

\* mutant: every handler of _search_duckduckgo() backs off
MutDdgSleep(clause, ratelimit) == "backoff"

\* _search_duckduckgo(): how a handler that retries sleeps before the retry
DdgSleep(clause, ratelimit) ==
    IF clause = "ddg" /\ ratelimit THEN "backoff" ELSE "fixed"

\* mutant: news_search() sleeps as _search_duckduckgo() does
MutNewsSleep(clause, ratelimit) ==
    IF clause = "ddg" /\ ratelimit THEN "backoff" ELSE "fixed"

\* news_search(): how a handler that retries sleeps before the retry
NewsSleep(clause, ratelimit) ==
    IF clause = "ddg" /\ ratelimit THEN "backoff"
    ELSE IF clause = "ddg" THEN "backoff"
    ELSE "backoff"

\* the argument of time.sleep() for a sleep of that kind
SleepTime(kind, attempt, jitter) ==
    IF kind = "backoff" THEN BackoffDelay(attempt, jitter)
    ELSE HalfSeconds(FixedSleep)

\* the jitters that make a difference to a sleep of that kind
JittersOf(kind) == IF kind = "backoff" THEN Jitters ELSE {0}

\* _search_duckduckgo(), news_search(): the _make_ddgs() calls of a handler.
\* A rate limit on the last attempt skips the continue and runs into the
\* second reconstruction.
Reconstructions(clause, ratelimit, attempt) ==
    IF clause = "ddg" /\ ratelimit /\ ~Retries(attempt)
    THEN 2 ELSE 1

\* how an attempt of a DDGS call ended, by the handler that caught it
Outcome(clause, ratelimit) ==
    IF clause = "ddg" /\ ratelimit THEN "ratelimit"
    ELSE IF clause = "ddg" THEN "provider_error"
    ELSE "exception"

\* _make_ddgs(): a new DDGS object, named by the least number that names no
\* object still referred to
MakeDdgs(live) == CHOOSE c \in 0..Cardinality(live) : c \notin live

\* self.ddgs after n times self.ddgs = self._make_ddgs(), while the
\* requests under way hold the objects in held
RebuiltAmong(client, n, held) ==
    LET once == MakeDdgs({client} \cup held)
    IN  IF n = 2 THEN MakeDdgs({once} \cup held) ELSE once

Rebuilt(client, n) == RebuiltAmong(client, n, {})

\* mutant: the fallback search repeats the query unchanged
MutNewsFallbackQuery(q) == q

\* news_search(): the query of the generic fallback search
NewsFallbackQuery(q) == q \o " news"

\* research(): per_page = per_page or max_sources or 5  (0 stands for None)
ResolvePerPage(pp, ms) ==
    IF pp # 0 THEN pp ELSE IF ms # 0 THEN ms ELSE DefaultPerPage

\* research(): page = max(0, int(page))
ResolvePage(pg) == Max(0, pg)

\* research(): start = page * per_page
StartOf(pg, pp) == pg * pp

\* research(): fetch_n = max(per_page * (page + 2), per_page * 3)
FetchN(pg, pp) == Max(pp * (pg + 2), pp * 3)

\* mutant: research() calls search() for news too
MutEngineCall(nw) == "search"

\* research(): the function of the search engine it calls
EngineCall(nw) == IF nw THEN "news_search" ELSE "search"

\* mutant: the slice starts one record late
MutPageResults(all, st, pp) ==
    IF NonEmpty(all) THEN PySlice(all, st + 1, st + pp + 1) ELSE <<>>

\* research(): page_results
PageResults(all, st, pp) ==
    IF NonEmpty(all) THEN PySlice(all, st, st + pp) ELSE <<>>

\* mutant: >= in place of >
MutHasMore(all, st, pp) == NonEmpty(all) /\ Len(all) >= st + pp

\* research(): has_more
HasMore(all, st, pp) == NonEmpty(all) /\ Len(all) > st + pp

\* mutant: only 'deep' scrapes
MutScrapes(dp) == dp = "deep"

\* research(): if depth in ['standard', 'deep']
Scrapes(dp) == dp \in {"standard", "deep"}

\* research(): if depth == 'deep' and self.use_ai
Analyzes(dp, ai) == dp = "deep" /\ ai

\* mutant: the dict is put in front of the history
MutAppended(history, rd) == <<rd>> \o history

\* research(): self.research_history.append(research_data)
Appended(history, rd) == Append(history, rd)

\* mutant: a page without results is returned without the 'error' entry
MutResearchData(q, results, pg, pp, more) ==
    [query |-> q, search_results |-> results, sources |-> <<>>,
     page |-> pg, per_page |-> pp, has_more |-> more]

\* research(): the returned dict (timestamp left out)
ResearchData(q, results, pg, pp, more) ==
    LET base == [query |-> q, search_results |-> results, sources |-> <<>>,
                 page |-> pg, per_page |-> pp, has_more |-> more]
    IN  IF NonEmpty(results) THEN base
        ELSE base @@ ("error" :> "No search results found")

(***************************************************************************)
(* State                                                                   *)
(***************************************************************************)
VARIABLES
    preferred_engine,   \* SearchEngine.preferred_engine
    google_api_key,     \* SearchEngine.google_api_key
    google_cse_id,      \* SearchEngine.google_cse_id
    use_ai,             \* AIResearchAgent.use_ai
    backend_idx,        \* SearchEngine._backend_idx
    ddgs,               \* SearchEngine.ddgs: the DDGS object it refers to
    research_history,   \* AIResearchAgent.research_history
    stack,              \* call stack: names of the active functions
    pc,                 \* position in the function on top of the stack
    ret,                \* value returned by the last function that returned
    op,                 \* the top-level call: "research", "search", "news_search"
    query, news, page, per_page, start, fetch_n,   \* locals of research()
    depth, r_i,                                    \* locals of research()
    calls,              \* top-level calls this agent has returned from
    b_attempt, b_jitter,                           \* _retry_backoff(): attempt, jitter
    b_sleep,                                       \* _retry_backoff(): sleep_time
    \* two workers of run_in_executor in _search_duckduckgo() of one engine:
    t_pc,               \* where each worker is
    t_attempt,          \* attempt of each worker
    t_backend,          \* backend of the request of each worker
    t_client,           \* DDGS object the request of each worker runs on
    t_read,             \* self._backend_idx as read at line 263
    t_caught,           \* how the last attempt of each worker ended
    t_own,              \* the index each worker would hold if it were its own
    t_mine,             \* the client each worker would hold if it were its own
    \* one raw hit in the loop that builds the results of a provider:
    z_provider,         \* the client the loop belongs to
    z_raw,              \* the raw hit (item, r)
    z_record,           \* the dict appended to results
    \* the bot, for one user:
    user_data,          \* context.user_data
    u_update,           \* the update the last handler was called for
    u_call,             \* the run_research() call of the last handler
    research_data,      \* the dict research() returns
    n_query, n_max, n_attempt,                     \* locals of news_search()
    generic,                                       \* local of news_search()
    s_query, s_max,                                \* arguments of search()
    google_results,                                \* local of search()
    g_max, g_i, g_num, g_results,                  \* locals of _search_google()
    d_max, d_attempt,                              \* locals of _search_duckduckgo()
    metered,            \* the requests of this call are being recorded
    g_asked,            \* the requests of _search_google(): start, num,
                        \* how each ended and the number of its items
    attempts,           \* the record of the DDGS attempts of this call
    slept,              \* argument of the time.sleep() before this attempt
    upstream,           \* number of results held by the provider that answered
    any_ok,             \* some provider request of this call succeeded
    trace               \* calls and returns of this top-level call, in order

cfg == <<preferred_engine, google_api_key, google_cse_id, use_ai>>
rvars == <<op, query, news, page, per_page, start, fetch_n, depth, r_i>>
tvars == <<t_pc, t_attempt, t_backend, t_client, t_read, t_caught, t_own,
           t_mine>>
zvars == <<z_provider, z_raw, z_record>>
uvars == <<user_data, u_update, u_call>>
others == <<calls, b_attempt, b_jitter, b_sleep, tvars, zvars, uvars>>
argvars == <<n_query, n_max, s_query, s_max, g_max, d_max>>
retvars == <<generic, google_results>>
evars == <<backend_idx, ddgs>>
gloop == <<g_i, g_num, g_results>>
loopvars == <<n_attempt, d_attempt, gloop, slept>>
meter == <<metered, attempts>>
vars == <<preferred_engine, google_api_key, google_cse_id, use_ai,
          backend_idx, ddgs, research_history, stack, pc, ret, op, query,
          news, page, per_page, start, fetch_n, depth, r_i, calls,
          b_attempt, b_jitter, b_sleep, z_provider, z_raw, z_record, user_data,
          u_update, u_call, t_pc, t_attempt, t_backend,
          t_client, t_read, t_caught, t_own, t_mine,
          research_data, n_query, n_max, n_attempt, s_query,
          s_max, g_max, g_i, g_num, g_results, g_asked, d_max, d_attempt,
          metered, attempts, slept, upstream, any_ok, trace, generic,
          google_results>>

NoData == [query |-> ""]

\* no call is under way: the locals of the last call are gone
Idle ==
    /\ stack = <<>>
    /\ pc = "idle"
    /\ ret = <<>>
    /\ op = "none"
    /\ query = "" /\ news = FALSE /\ page = 0 /\ per_page = 0
    /\ start = 0 /\ fetch_n = 0
    /\ depth = "" /\ r_i = 0
    /\ research_data = NoData
    /\ n_query = "" /\ n_max = 0 /\ n_attempt = 0
    /\ s_query = "" /\ s_max = 0
    /\ generic = <<>> /\ google_results = <<>>
    /\ g_max = 0 /\ g_i = 0 /\ g_num = 0 /\ g_results = <<>>
    /\ d_max = 0 /\ d_attempt = 0
    /\ g_asked = <<>>
    /\ attempts = <<>>
    /\ slept = 0
    /\ upstream = 0
    /\ any_ok = FALSE
    /\ trace = <<>>

\* The engine after SearchEngine.__init__, and an agent that has not been
\* called yet.
Constructed ==
    /\ preferred_engine \in {Lower(e) : e \in EngineArgs}
    /\ google_api_key \in ApiKeys
    /\ google_cse_id \in CseIds
    /\ backend_idx = 0
    /\ ddgs = 0
    /\ research_history = <<>>
    /\ calls = 0
    /\ Idle
    /\ t_pc = [t \in Threads |-> "idle"]
    /\ t_attempt = [t \in Threads |-> 0]
    /\ t_backend = [t \in Threads |-> ""]
    /\ t_client = [t \in Threads |-> NoClient]
    /\ t_read = [t \in Threads |-> 0]
    /\ t_caught = [t \in Threads |-> ""]
    /\ t_own = [t \in Threads |-> 0]
    /\ t_mine = [t \in Threads |-> NoClient]

\* no raw hit is being looked at by itself
NoHit ==
    /\ z_provider = ""
    /\ z_raw = <<>>
    /\ z_record = <<>>

\* the bot has handled no update of the user
NoCall == [query |-> ""]
NoUpdate ==
    /\ user_data = <<>>
    /\ u_update = ""
    /\ u_call = NoCall

\* no direct call of _retry_backoff() is under way
Fresh ==
    /\ Constructed
    /\ b_attempt = 0 /\ b_jitter = 0 /\ b_sleep = 0
    /\ NoHit
    /\ NoUpdate

\* use_ai is True unless the caller of AIResearchAgent() says otherwise
Init == Fresh /\ metered = FALSE /\ use_ai = TRUE

(***************************************************************************)
(* Returning and raising                                                   *)
(***************************************************************************)
\* the engine function the top-level caller invoked
EngineEntry == IF stack[1] = "research" THEN stack[2] ELSE stack[1]

\* the messages of logging.error() that go into the trace
NewsFailedLog == "error:News search failed after retries"
SearchFailedLog == "error:Search failed after retries"

InNewsSearch == \E k \in 1..Len(stack) : stack[k] = "news_search"

\* the locals of the retry and request loops go away with their frames
ResetLoops ==
    /\ n_attempt' = 0
    /\ d_attempt' = 0
    /\ g_i' = 0 /\ g_num' = 0 /\ g_results' = <<>>
    /\ slept' = 0

\* one attempt of a DDGS call: the function, the backend index and the
\* client it ran with, how it ended, the number of hits it handed back and
\* the sleep that followed it
Attempt(fn, out, got, sleep) ==
    [fn |-> fn, idx |-> backend_idx, client |-> ddgs, out |-> out,
     got |-> got, sleep |-> sleep]

\* the record of attempts, the last sleep and the sizes asked of Google are
\* kept while metered
Record(a) == IF metered THEN Append(attempts, a) ELSE attempts
Asked(first, num, out, got) ==
    IF metered
    THEN Append(g_asked, [start |-> first, num |-> num, out |-> out,
                          got |-> got])
    ELSE g_asked
Slept(t) == IF metered THEN t ELSE 0

\* search() or news_search() returns v to the caller of the engine
ReturnToCaller(v, events) ==
    /\ ret' = v
    /\ pc' = IF stack[1] = "research" THEN "research_page" ELSE "done"
    /\ stack' = IF stack[1] = "research" THEN <<"research">> ELSE <<>>
    /\ trace' = trace \o events \o <<"ret:" \o EngineEntry>>
    /\ ResetLoops

\* search() returns v.  Its clients are called in return position, so v is
\* the value the client returned.  Inside news_search() the value is bound
\* to generic; otherwise it goes to the caller of the engine.
ReturnFromSearch(v, events) ==
    IF InNewsSearch
    THEN /\ generic' = v
         /\ pc' = "news_generic"
         /\ stack' = SubSeq(stack, 1,
                            CHOOSE k \in 1..Len(stack) : stack[k] = "news_search")
         /\ trace' = trace \o events \o <<"ret:search">>
         /\ ResetLoops
         /\ UNCHANGED ret
    ELSE /\ ReturnToCaller(v, events)
         /\ UNCHANGED generic

\* an exception leaves the engine: nothing in research() or above catches it
Raise ==
    /\ ret' = <<>>
    /\ pc' = "raised"
    /\ stack' = <<>>
    /\ trace' = Append(trace, "raise")
    /\ ResetLoops
    /\ UNCHANGED generic

\* an exception e that no handler of search() or of its clients caught:
\* only the try around the fallback search of news_search() is left
Propagate(e) ==
    IF InNewsSearch /\ NewsFallbackClause(e) # "uncaught"
    THEN /\ ReturnToCaller(<<>>, <<"error:News fallback search also failed">>)
         /\ UNCHANGED generic
    ELSE Raise

\* _search_google() returns v to search()
GoogleRet(v) ==
    /\ google_results' = v
    /\ pc' = "google_ret"
    /\ stack' = SubSeq(stack, 1, Len(stack) - 1)
    /\ trace' = Append(trace, "ret:_search_google")
    /\ g_i' = 0 /\ g_num' = 0 /\ g_results' = <<>>

\* the number of hits a provider holding avail more results hands back when
\* asked for asked of them: what was asked for, or all it has
Delivered(asked, avail) == {Min(asked, avail), avail}

\* what a provider holding h results has from position first on
Available(h, first) == Max(0, h - first + 1)

(***************************************************************************)
(* Top-level calls                                                         *)
(***************************************************************************)
\* AIResearchAgent.research(query, depth, news, page, per_page, max_sources) up to
\* the call of the search engine
Research(q, dp, nw, pg, pp, ms) ==
    /\ pc = "idle"
    /\ op' = "research"
    /\ query' = q
    /\ depth' = dp
    /\ r_i' = 0
    /\ news' = nw
    /\ per_page' = ResolvePerPage(pp, ms)
    /\ page' = ResolvePage(pg)
    /\ start' = StartOf(page', per_page')
    /\ fetch_n' = FetchN(page', per_page')
    /\ LET fn == EngineCall(nw)
       IN  /\ pc' = fn
           /\ stack' = <<"research", fn>>
           /\ trace' = <<fn>>
           /\ IF fn = "news_search"
              THEN /\ n_query' = q /\ n_max' = fetch_n'
                   /\ UNCHANGED <<s_query, s_max>>
              ELSE /\ s_query' = q /\ s_max' = fetch_n'
                   /\ UNCHANGED <<n_query, n_max>>
    /\ UNCHANGED <<cfg, others, evars, meter, research_history, ret,
                   research_data, g_max, d_max, loopvars, g_asked, upstream,
                   any_ok, retvars>>

\* a caller invokes SearchEngine.search(query, max_results)
CallSearch(q, m) ==
    /\ pc = "idle"
    /\ op' = "search"
    /\ s_query' = q /\ s_max' = m
    /\ pc' = "search"
    /\ stack' = <<"search">>
    /\ trace' = <<"search">>
    /\ UNCHANGED <<cfg, others, evars, meter, research_history, ret, query,
                   news, page, per_page, start, fetch_n, depth, r_i,
                   research_data, n_query, n_max, g_max, d_max, loopvars,
                   g_asked, upstream, any_ok, retvars>>

\* set_preferred_engine(engine), between calls
SetPreferredEngine(engine) ==
    /\ pc = "idle"
    /\ preferred_engine' = Lower(engine)
    /\ UNCHANGED <<google_api_key, google_cse_id, use_ai, others, evars,
                   meter, research_history, stack, pc, ret, rvars,
                   research_data, argvars, loopvars, g_asked, upstream,
                   any_ok, trace, retvars>>

\* a caller invokes SearchEngine._search_google(query, max_results) itself
CallSearchGoogle(q, m) ==
    /\ pc = "idle"
    /\ op' = "_search_google"
    /\ s_query' = q /\ g_max' = m
    /\ pc' = "_search_google"
    /\ stack' = <<"_search_google">>
    /\ trace' = <<"_search_google">>
    /\ UNCHANGED <<cfg, others, evars, meter, research_history, ret, query,
                   news, page, per_page, start, fetch_n, depth, r_i,
                   research_data, n_query, n_max, s_max, d_max, loopvars,
                   g_asked, upstream, any_ok, retvars>>

\* _search_google() called by itself has returned: the caller has the list
GoogleReturned ==
    /\ pc = "google_ret"
    /\ stack = <<>>
    /\ ret' = google_results
    /\ pc' = "done"
    /\ trace' = Append(trace, "ret:caller")
    /\ UNCHANGED <<cfg, others, evars, meter, research_history, stack, rvars,
                   research_data, argvars, loopvars, g_asked, upstream,
                   any_ok, retvars>>

\* a caller invokes SearchEngine.news_search(query, max_results)
CallNewsSearch(q, m) ==
    /\ pc = "idle"
    /\ op' = "news_search"
    /\ n_query' = q /\ n_max' = m
    /\ pc' = "news_search"
    /\ stack' = <<"news_search">>
    /\ trace' = <<"news_search">>
    /\ UNCHANGED <<cfg, others, evars, meter, research_history, ret, query,
                   news, page, per_page, start, fetch_n, depth, r_i,
                   research_data, s_query, s_max, g_max, d_max, loopvars,
                   g_asked, upstream, any_ok, retvars>>

(***************************************************************************)
(* SearchEngine.search                                                     *)
(***************************************************************************)
\* mutant: the forced Google mode does not look at the credentials
MutFirstClient(engine, key, cse) ==
    IF ForcedDuckDuckGo(engine) THEN "_search_duckduckgo"
    ELSE IF ForcedGoogle(engine) THEN "_search_google"
         ELSE IF GoogleConfigured(key, cse) THEN "_search_google"
              ELSE "_search_duckduckgo"

\* the client search() calls first
FirstClient(engine, key, cse) ==
    IF ForcedDuckDuckGo(engine) THEN "_search_duckduckgo"
    ELSE IF ForcedGoogle(engine)
         THEN IF GoogleConfigured(key, cse) THEN "_search_google"
              ELSE "_search_duckduckgo"
         ELSE IF GoogleConfigured(key, cse) THEN "_search_google"
              ELSE "_search_duckduckgo"

Search ==
    /\ pc = "search"
    /\ LET client == FirstClient(preferred_engine, google_api_key, google_cse_id)
       IN  /\ pc' = client
           /\ stack' = Append(stack, client)
           /\ trace' = Append(trace, client)
           /\ g_max' = IF client = "_search_google" THEN s_max ELSE g_max
           /\ d_max' = IF client = "_search_duckduckgo" THEN s_max ELSE d_max
    /\ UNCHANGED <<cfg, others, evars, meter, research_history, ret, rvars,
                   research_data, n_query, n_max, s_query, s_max, loopvars,
                   g_asked, upstream, any_ok, retvars>>

\* search() after _search_google() returned
SearchAfterGoogle ==
    /\ pc = "google_ret"
    /\ IF GoogleAccepted(google_results)
       THEN /\ ReturnFromSearch(google_results, <<>>)
            /\ UNCHANGED d_max
       ELSE /\ pc' = "_search_duckduckgo"
            /\ stack' = Append(stack, "_search_duckduckgo")
            /\ trace' = Append(trace, "_search_duckduckgo")
            /\ d_max' = s_max
            /\ UNCHANGED <<ret, generic, loopvars>>
    /\ UNCHANGED <<cfg, others, evars, meter, research_history, rvars,
                   research_data, n_query, n_max, s_query, s_max, g_max,
                   g_asked, upstream, any_ok, google_results>>

(***************************************************************************)
(* SearchEngine._search_google                                             *)
(***************************************************************************)
\* entry: credential checks and num_requests
SearchGoogle ==
    /\ pc = "_search_google"
    /\ IF GoogleShortCircuit(google_api_key, google_cse_id)
          \/ NumRequests(g_max) <= 0
       THEN GoogleRet(<<>>)
       ELSE /\ pc' = "google_request"
            /\ g_num' = NumRequests(g_max)
            /\ g_i' = 0
            /\ g_results' = <<>>
            /\ UNCHANGED <<stack, google_results, trace>>
    /\ g_asked' = <<>>
    /\ UNCHANGED <<cfg, others, evars, meter, research_history, ret, generic,
                   rvars, research_data, argvars, n_attempt, d_attempt, slept,
                   upstream, any_ok>>

\* request g_i is answered: the provider holds h results for the query and
\* hands back d of them, from position start on
GoogleResponse(h, d) ==
    /\ pc = "google_request"
    /\ h = IF g_i = 0 THEN h ELSE upstream
    /\ LET first == StartIndex(g_i)
           num == RequestNum(g_max, Len(g_results))
       IN  /\ d \in Delivered(num, Max(0, h - first + 1))
           /\ g_asked' = Asked(first, num, "ok", d)
           /\ LET items == Hits(GoogleItems, first, first + d - 1)
                  results == g_results \o NormalizeAllGoogle(items)
              IN  IF GoogleStops(items, results, g_max, g_i, g_num)
                  THEN GoogleRet(GoogleReturn(results, g_max))
                  ELSE /\ g_results' = results
                       /\ g_i' = g_i + 1
                       /\ UNCHANGED <<pc, stack, google_results, trace,
                                      g_num>>
    /\ upstream' = h
    /\ any_ok' = TRUE
    /\ UNCHANGED <<cfg, others, evars, meter, research_history, ret, generic,
                   rvars, research_data, argvars, n_attempt, d_attempt,
                   slept>>

\* request g_i raises e (raise_for_status, transport, JSON decoding)
GoogleError(e) ==
    /\ pc = "google_request"
    /\ g_asked' = Asked(StartIndex(g_i), RequestNum(g_max, Len(g_results)),
                        "error", 0)
    /\ IF GoogleClause(e) # "uncaught"
       THEN /\ GoogleRet(GoogleFailure(g_results))
            /\ UNCHANGED <<ret, generic, n_attempt, d_attempt, slept>>
       ELSE /\ Propagate(e)
            /\ UNCHANGED google_results
    /\ upstream' = 0
    /\ UNCHANGED <<cfg, others, evars, meter, research_history, rvars,
                   research_data, argvars, any_ok>>

(***************************************************************************)
(* SearchEngine._search_duckduckgo                                         *)
(***************************************************************************)
SearchDuckDuckGo ==
    /\ pc = "_search_duckduckgo"
    /\ d_max' = Clamp(d_max)
    /\ d_attempt' = 0
    /\ slept' = 0
    /\ pc' = "ddg_attempt"
    /\ UNCHANGED <<cfg, others, evars, meter, research_history, stack, ret,
                   rvars, research_data, n_query, n_max, s_query, s_max,
                   g_max, n_attempt, gloop, g_asked, upstream, any_ok, trace,
                   retvars>>

\* attempt d_attempt succeeds: the provider holds h results and hands back d
DdgResponse(h, d) ==
    /\ pc = "ddg_attempt"
    /\ d \in Delivered(d_max, h)
    /\ ReturnFromSearch(NormalizeAllDdg(Hits(DdgHits, 1, d)), <<>>)
    /\ attempts' = Record(Attempt("text", "ok", d, "none"))
    /\ upstream' = h
    /\ any_ok' = TRUE
    /\ UNCHANGED <<cfg, others, evars, metered, research_history, rvars,
                   research_data, argvars, g_asked, google_results>>

\* attempt d_attempt raises e; j is the jitter of the backoff, if there is
\* one.  The handler switches the backend on a rate limit, builds a new
\* client and, when an attempt is left, sleeps and goes on with it.
DdgError(e, j) ==
    /\ pc = "ddg_attempt"
    /\ LET clause == DdgClause(e)
           kind == DdgSleep(clause, IsRateLimit(e))
           out == Outcome(clause, IsRateLimit(e))
       IN  IF clause = "uncaught"
           THEN /\ j = 0
                /\ Propagate(e)
                /\ UNCHANGED <<evars, attempts>>
           ELSE /\ backend_idx' = IF clause = "ddg" /\ IsRateLimit(e)
                                  THEN NextBackend(backend_idx)
                                  ELSE backend_idx
                /\ ddgs' = Rebuilt(ddgs, Reconstructions(clause, IsRateLimit(e),
                                                         d_attempt))
                /\ IF Retries(d_attempt)
                   THEN /\ j \in JittersOf(kind)
                        /\ d_attempt' = d_attempt + 1
                        /\ slept' = Slept(SleepTime(kind, d_attempt, j))
                        /\ attempts' = Record(Attempt("text", out, 0, kind))
                        /\ UNCHANGED <<pc, stack, ret, generic, trace,
                                       n_attempt, gloop>>
                   ELSE /\ j = 0
                        /\ attempts' = Record(Attempt("text", out, 0, "none"))
                        /\ ReturnFromSearch(<<>>, <<SearchFailedLog>>)
    /\ upstream' = 0
    /\ UNCHANGED <<cfg, others, metered, research_history, rvars,
                   research_data, argvars, g_asked, any_ok, google_results>>

(***************************************************************************)
(* SearchEngine.news_search                                                *)
(***************************************************************************)
NewsSearch ==
    /\ pc = "news_search"
    /\ n_max' = Clamp(n_max)
    /\ n_attempt' = 0
    /\ slept' = 0
    /\ pc' = "news_attempt"
    /\ UNCHANGED <<cfg, others, evars, meter, research_history, stack, ret,
                   rvars, research_data, n_query, s_query, s_max, g_max,
                   d_max, d_attempt, gloop, g_asked, upstream, any_ok, trace,
                   retvars>>

\* attempt n_attempt succeeds
NewsResponse(h, d) ==
    /\ pc = "news_attempt"
    /\ d \in Delivered(n_max, h)
    /\ ReturnToCaller(NormalizeAllNews(Hits(NewsHits, 1, d)), <<>>)
    /\ attempts' = Record(Attempt("news", "ok", d, "none"))
    /\ upstream' = h
    /\ any_ok' = TRUE
    /\ UNCHANGED <<cfg, others, evars, metered, research_history, rvars,
                   research_data, argvars, g_asked, retvars>>

\* attempt n_attempt raises e; j is the jitter of the backoff
NewsError(e, j) ==
    /\ pc = "news_attempt"
    /\ LET clause == NewsClause(e)
           kind == NewsSleep(clause, IsRateLimit(e))
           out == Outcome(clause, IsRateLimit(e))
       IN  IF clause = "uncaught"
           THEN /\ j = 0
                /\ Raise
                /\ UNCHANGED <<ddgs, attempts>>
           ELSE /\ ddgs' = Rebuilt(ddgs, Reconstructions(clause, IsRateLimit(e),
                                                         n_attempt))
                /\ IF Retries(n_attempt)
                   THEN /\ j \in JittersOf(kind)
                        /\ n_attempt' = n_attempt + 1
                        /\ slept' = Slept(SleepTime(kind, n_attempt, j))
                        /\ attempts' = Record(Attempt("news", out, 0, kind))
                        /\ UNCHANGED <<pc, stack, ret, trace, d_attempt,
                                       gloop>>
                   ELSE /\ j = 0
                        /\ pc' = "news_fallback"
                        /\ n_attempt' = 0
                        /\ slept' = 0
                        /\ attempts' = Record(Attempt("news", out, 0, "none"))
                        /\ trace' = Append(trace, NewsFailedLog)
                        /\ UNCHANGED <<stack, ret, d_attempt, gloop>>
    /\ UNCHANGED <<cfg, others, backend_idx, metered, research_history, rvars,
                   research_data, argvars, g_asked, upstream, any_ok,
                   retvars>>

\* all attempts failed: the generic search for "<query> news"
NewsFallback ==
    /\ pc = "news_fallback"
    /\ s_query' = NewsFallbackQuery(n_query)
    /\ s_max' = n_max
    /\ pc' = "search"
    /\ stack' = Append(stack, "search")
    /\ trace' = Append(trace, "search")
    /\ UNCHANGED <<cfg, others, evars, meter, research_history, ret, rvars,
                   research_data, n_query, n_max, g_max, d_max, loopvars,
                   g_asked, upstream, any_ok, retvars>>

\* the fallback search returned: return generic
NewsReturnGeneric ==
    /\ pc = "news_generic"
    /\ ReturnToCaller(generic, <<>>)
    /\ UNCHANGED <<cfg, others, evars, meter, research_history, rvars,
                   research_data, argvars, g_asked, upstream, any_ok,
                   retvars>>

(***************************************************************************)
(* AIResearchAgent.research after the search                               *)
(***************************************************************************)
\* research() returns research_data
FinishResearch(rd, events) ==
    /\ research_history' = Appended(research_history, rd)
    /\ pc' = "done"
    /\ stack' = <<>>
    /\ trace' = trace \o events \o <<"ret:research">>

\* the search returned: the page, and what follows from it and from depth
ResearchPage ==
    /\ pc = "research_page"
    /\ LET rd == ResearchData(query, PageResults(ret, start, per_page), page,
                              per_page, HasMore(ret, start, per_page))
       IN  /\ research_data' = rd
           /\ IF NonEmpty(rd.search_results) /\ Scrapes(depth)
              THEN /\ pc' = "research_scrape"
                   /\ UNCHANGED <<research_history, stack, trace>>
              ELSE FinishResearch(rd, <<>>)
    /\ r_i' = 0
    /\ UNCHANGED <<cfg, others, evars, meter, ret, op, query, news, page,
                   per_page, start, fetch_n, depth, argvars, loopvars,
                   g_asked, upstream, any_ok, retvars>>

\* the scrape of result r_i of the page: scrape_url() returns a dict with
\* success True or False, or raises
Scrape(outcome) ==
    /\ pc = "research_scrape"
    /\ LET result == research_data.search_results[r_i + 1]
           scraped == [url |-> Get(result, "url", ""), success |-> TRUE]
           rd == IF outcome = "success"
                 THEN [research_data EXCEPT !.sources = Append(@, scraped)]
                 ELSE research_data
       IN  /\ research_data' = rd
           /\ r_i' = r_i + 1
           /\ IF r_i + 1 < Len(research_data.search_results)
              THEN /\ trace' = Append(trace, "scrape_url")
                   /\ UNCHANGED <<pc, stack, research_history>>
              ELSE IF Analyzes(depth, use_ai)
                   THEN /\ pc' = "research_analyze"
                        /\ trace' = Append(trace, "scrape_url")
                        /\ UNCHANGED <<stack, research_history>>
                   ELSE FinishResearch(rd, <<"scrape_url">>)
    /\ UNCHANGED <<cfg, others, evars, meter, ret, op, query, news, page,
                   per_page, start, fetch_n, depth, argvars, loopvars,
                   g_asked, upstream, any_ok, retvars>>

\* _analyze_with_ai() returns a text: the summary of a model, or the message
\* that none is available
Analyze(text) ==
    /\ pc = "research_analyze"
    /\ research_data' = research_data @@ ("analysis" :> text)
    /\ FinishResearch(research_data', <<"_analyze_with_ai">>)
    /\ UNCHANGED <<cfg, others, evars, meter, ret, rvars, argvars, loopvars,
                   g_asked, upstream, any_ok, retvars>>

(***************************************************************************)
(* Specifications                                                          *)
(***************************************************************************)
\* The search engine under direct calls of search() and news_search(), for
\* every configuration of engine preference and credentials.
Next ==
    \/ \E q \in Queries, m \in MaxResultsArgs : CallSearch(q, m)
    \/ \E q \in Queries, m \in MaxResultsArgs : CallNewsSearch(q, m)
    \/ Search
    \/ SearchAfterGoogle
    \/ SearchGoogle
    \/ \E h \in 0..MaxHits :
          \E d \in Delivered(RequestNum(g_max, Len(g_results)),
                             Available(h, StartIndex(g_i))) :
             GoogleResponse(h, d)
    \/ \E e \in GoogleExceptions : GoogleError(e)
    \/ SearchDuckDuckGo
    \/ \E h \in 0..MaxHits : \E d \in Delivered(d_max, h) : DdgResponse(h, d)
    \/ \E e \in DdgExceptions, j \in Jitters : DdgError(e, j)
    \/ NewsSearch
    \/ \E h \in 0..MaxHits : \E d \in Delivered(n_max, h) : NewsResponse(h, d)
    \/ \E e \in DdgExceptions, j \in Jitters : NewsError(e, j)
    \/ NewsFallback
    \/ NewsReturnGeneric

Spec == Init /\ [][Next]_vars

\* research() on a freshly constructed agent whose engine has both Google
\* credentials, so that either provider can end up answering.
InitResearch ==
    /\ Init
    /\ google_api_key = "AIzaKey"
    /\ google_cse_id = "017:cx"
    /\ backend_idx = 0

NextResearch ==
    \/ \E q \in Queries, nw \in BOOLEAN, pg \in -1..MaxPage,
          pp \in 0..MaxPerPage, ms \in 0..MaxPerPage :
             Research(q, "quick", nw, pg, pp, ms)
    \/ Search
    \/ SearchAfterGoogle
    \/ SearchGoogle
    \/ \E h \in 0..MaxHits :
          \E d \in Delivered(RequestNum(g_max, Len(g_results)),
                             Available(h, StartIndex(g_i))) :
             GoogleResponse(h, d)
    \/ \E e \in GoogleExceptions : GoogleError(e)
    \/ SearchDuckDuckGo
    \/ \E h \in 0..MaxHits : \E d \in Delivered(d_max, h) : DdgResponse(h, d)
    \/ \E e \in DdgExceptions, j \in Jitters : DdgError(e, j)
    \/ NewsSearch
    \/ \E h \in 0..MaxHits : \E d \in Delivered(n_max, h) : NewsResponse(h, d)
    \/ \E e \in DdgExceptions, j \in Jitters : NewsError(e, j)
    \/ NewsFallback
    \/ NewsReturnGeneric
    \/ ResearchPage

SpecResearch == InitResearch /\ [][NextResearch]_vars

\* One search() that ends in the DuckDuckGo client (no Google credentials),
\* with its attempts recorded.
RetryMaxResults == {5}

InitRetry ==
    /\ Fresh
    /\ metered = TRUE
    /\ use_ai = TRUE
    /\ google_api_key = NONE
    /\ google_cse_id = NONE

NextRetry ==
    \/ \E q \in Queries, m \in RetryMaxResults : CallSearch(q, m)
    \/ Search
    \/ SearchDuckDuckGo
    \/ \E h \in 0..MaxHits : \E d \in Delivered(d_max, h) : DdgResponse(h, d)
    \/ \E e \in DdgExceptions, j \in Jitters : DdgError(e, j)

SpecRetry == InitRetry /\ [][NextRetry]_vars

\* search() and news_search() on an engine with both Google credentials,
\* with the requests recorded.  The providers hand back what they are asked
\* for, or what they have if that is less; the DDGS calls fail by rate
\* limits only.
GoogleMaxResultsArgs == MaxResultsArgs \cup {31}
RateLimits == {e \in DdgExceptions : e.cls = "RatelimitException"}

InitGoogle ==
    /\ Fresh
    /\ metered = TRUE
    /\ use_ai = TRUE
    /\ google_api_key = "AIzaKey"
    /\ google_cse_id = "017:cx"

NextGoogle ==
    \/ \E q \in Queries, m \in GoogleMaxResultsArgs : CallSearch(q, m)
    \/ \E q \in Queries, m \in GoogleMaxResultsArgs : CallNewsSearch(q, m)
    \/ Search
    \/ SearchAfterGoogle
    \/ SearchGoogle
    \/ \E h \in 0..MaxHits :
          GoogleResponse(h, Min(RequestNum(g_max, Len(g_results)),
                                Available(h, StartIndex(g_i))))
    \/ \E e \in GoogleExceptions : GoogleError(e)
    \/ SearchDuckDuckGo
    \/ \E h \in 0..MaxHits : DdgResponse(h, Min(d_max, h))
    \/ \E e \in RateLimits, j \in Jitters : DdgError(e, j)
    \/ NewsSearch
    \/ \E h \in 0..MaxHits : NewsResponse(h, Min(n_max, h))
    \/ \E e \in RateLimits, j \in Jitters : NewsError(e, j)
    \/ NewsFallback
    \/ NewsReturnGeneric

SpecGoogle == InitGoogle /\ [][NextGoogle]_vars

\* search() and news_search() on engines of every configuration, with
\* providers that answer or fail in every way.  The
\* steps of a call are taken one after the other by the thread that runs
\* it: none of them waits for anything but the provider, whose requests
\* time out.
BudgetMaxResultsArgs == {1, 31}
\* the providers hold nothing, one result or many
BudgetHits == {0, 1, MaxHits}

InitBudget ==
    /\ Fresh
    /\ metered = FALSE
    /\ use_ai = TRUE

NextBudget ==
    \/ \E q \in Queries, m \in BudgetMaxResultsArgs : CallSearch(q, m)
    \/ \E q \in Queries, m \in BudgetMaxResultsArgs : CallNewsSearch(q, m)
    \/ Search
    \/ SearchAfterGoogle
    \/ SearchGoogle
    \/ \E h \in BudgetHits :
          \E d \in Delivered(RequestNum(g_max, Len(g_results)),
                             Available(h, StartIndex(g_i))) :
             GoogleResponse(h, d)
    \/ \E e \in GoogleExceptions : GoogleError(e)
    \/ SearchDuckDuckGo
    \/ \E h \in BudgetHits : \E d \in Delivered(d_max, h) : DdgResponse(h, d)
    \/ \E e \in DdgExceptions, j \in Jitters : DdgError(e, j)
    \/ NewsSearch
    \/ \E h \in BudgetHits : \E d \in Delivered(n_max, h) : NewsResponse(h, d)
    \/ \E e \in DdgExceptions, j \in Jitters : NewsError(e, j)
    \/ NewsFallback
    \/ NewsReturnGeneric

SpecBudget == InitBudget /\ [][NextBudget]_vars /\ WF_vars(NextBudget)

\* _search_google() called by itself on engines of every configuration, with
\* the requests recorded
InitPrimary ==
    /\ Fresh
    /\ metered = TRUE
    /\ use_ai = TRUE
    /\ preferred_engine = "auto"

NextPrimary ==
    \/ \E q \in Queries, m \in MaxResultsArgs : CallSearchGoogle(q, m)
    \/ SearchGoogle
    \/ \E h \in 0..MaxHits :
          GoogleResponse(h, Min(RequestNum(g_max, Len(g_results)),
                                Available(h, StartIndex(g_i))))
    \/ \E e \in GoogleExceptions : GoogleError(e)
    \/ GoogleReturned

SpecPrimary == InitPrimary /\ [][NextPrimary]_vars

\* search() on an engine whose mode was set with set_preferred_engine() to
\* 'google', to 'auto' or to a string search() does not know, for every
\* configuration of the credentials, with both providers answering or
\* failing in every way and the attempts recorded.
ModeArgs == {"auto", "AUTO", "Google", "bing"}

InitModes ==
    /\ Fresh
    /\ metered = TRUE
    /\ use_ai = TRUE
    /\ preferred_engine = "auto"

NextModes ==
    \/ \E e \in ModeArgs : SetPreferredEngine(e)
    \/ \E q \in Queries, m \in RetryMaxResults : CallSearch(q, m)
    \/ Search
    \/ SearchAfterGoogle
    \/ SearchGoogle
    \/ \E h \in BudgetHits :
          \E d \in Delivered(RequestNum(g_max, Len(g_results)),
                             Available(h, StartIndex(g_i))) :
             GoogleResponse(h, d)
    \/ \E e \in GoogleExceptions : GoogleError(e)
    \/ SearchDuckDuckGo
    \/ \E h \in BudgetHits : \E d \in Delivered(d_max, h) : DdgResponse(h, d)
    \/ \E e \in DdgExceptions, j \in Jitters : DdgError(e, j)

SpecModes == InitModes /\ [][NextModes]_vars

\* news requests, through research() and straight to news_search(), on
\* engines of every mode and configuration, with the attempts recorded.  The
\* news provider fails in every way; the providers of the fallback search
\* answer or fail at their first request.
InitNewsModes ==
    /\ Fresh
    /\ metered = TRUE
    /\ use_ai = TRUE

NextNewsModes ==
    \/ \E q \in Queries, m \in RetryMaxResults : CallNewsSearch(q, m)
    \/ \E q \in Queries, nw \in BOOLEAN :
          Research(q, "quick", nw, 0, DefaultPerPage, DefaultPerPage)
    \/ NewsSearch
    \/ \E h \in BudgetHits : NewsResponse(h, Min(n_max, h))
    \/ \E e \in DdgExceptions, j \in Jitters : NewsError(e, j)
    \/ NewsFallback
    \/ Search
    \/ SearchAfterGoogle
    \/ SearchGoogle
    \/ \E h \in BudgetHits :
          GoogleResponse(h, Min(RequestNum(g_max, Len(g_results)),
                                Available(h, StartIndex(g_i))))
    \/ \E e \in GoogleExceptions : GoogleError(e)
    \/ SearchDuckDuckGo
    \/ \E h \in BudgetHits : DdgResponse(h, Min(d_max, h))
    \/ NewsReturnGeneric
    \/ ResearchPage

SpecNewsModes == InitNewsModes /\ [][NextNewsModes]_vars

\* news_search() on an engine without Google credentials, with the attempts
\* recorded.  The news provider fails in every way; the text provider of the
\* fallback search answers its first request.
InitNews ==
    /\ Fresh
    /\ metered = TRUE
    /\ use_ai = TRUE
    /\ google_api_key = NONE
    /\ google_cse_id = NONE

NextNews ==
    \/ \E q \in Queries, m \in RetryMaxResults : CallNewsSearch(q, m)
    \/ NewsSearch
    \/ \E h \in 0..MaxHits : \E d \in Delivered(n_max, h) : NewsResponse(h, d)
    \/ \E e \in DdgExceptions, j \in Jitters : NewsError(e, j)
    \/ NewsFallback
    \/ Search
    \/ SearchDuckDuckGo
    \/ \E h \in 0..MaxHits : DdgResponse(h, Min(d_max, h))
    \/ NewsReturnGeneric

SpecNews == InitNews /\ [][NextNews]_vars

\* research() at every depth, on agents with and without use_ai.  The engine
\* has no Google credentials and the DuckDuckGo provider answers the first
\* attempt with what it is asked for, or with what it has.
InitDepth ==
    /\ Fresh
    /\ metered = FALSE
    /\ use_ai \in BOOLEAN
    /\ preferred_engine = "auto"
    /\ google_api_key = NONE
    /\ google_cse_id = NONE

NextDepth ==
    \/ \E q \in Queries, dp \in Depths, pg \in 0..1, pp \in 1..MaxPerPage :
          Research(q, dp, FALSE, pg, pp, DefaultPerPage)
    \/ Search
    \/ SearchDuckDuckGo
    \/ \E h \in 0..MaxHits : DdgResponse(h, Min(d_max, h))
    \/ ResearchPage
    \/ \E o \in ScrapeOutcomes : Scrape(o)
    \/ \E t \in AnalysisTexts : Analyze(t)

SpecDepth == InitDepth /\ [][NextDepth]_vars

(***************************************************************************)
(* Calls one after the other on one engine                                 *)
(***************************************************************************)
\* the caller has its result and is about to call the same engine again:
\* the engine keeps its fields, the locals of the call are gone
CallAgain ==
    /\ pc = "done"
    /\ calls + 1 < MaxCalls
    /\ calls' = calls + 1
    /\ stack' = <<>>
    /\ pc' = "idle"
    /\ ret' = <<>>
    /\ op' = "none"
    /\ query' = "" /\ news' = FALSE /\ page' = 0 /\ per_page' = 0
    /\ start' = 0 /\ fetch_n' = 0
    /\ depth' = "" /\ r_i' = 0
    /\ research_data' = NoData
    /\ n_query' = "" /\ n_max' = 0
    /\ s_query' = "" /\ s_max' = 0
    /\ generic' = <<>> /\ google_results' = <<>>
    /\ g_max' = 0 /\ d_max' = 0
    /\ ResetLoops
    /\ g_asked' = <<>>
    /\ attempts' = <<>>
    /\ upstream' = 0
    /\ any_ok' = FALSE
    /\ trace' = <<>>
    /\ UNCHANGED <<cfg, evars, metered, research_history, b_attempt, b_jitter,
                   b_sleep, tvars, zvars, uvars>>

\* the same searches with the attempts recorded, so that a search starts on
\* the backend the searches before it have left
InitRetrySeq ==
    /\ Fresh
    /\ metered = TRUE
    /\ use_ai = TRUE
    /\ google_api_key = NONE
    /\ google_cse_id = NONE

NextRetrySeq ==
    \/ \E q \in Queries, m \in RetryMaxResults : CallSearch(q, m)
    \/ Search
    \/ SearchDuckDuckGo
    \/ \E h \in BudgetHits : DdgResponse(h, Min(d_max, h))
    \/ \E e \in DdgExceptions, j \in Jitters : DdgError(e, j)
    \/ CallAgain

SpecRetrySeq == InitRetrySeq /\ [][NextRetrySeq]_vars

\* save_research(): the history is written to a file, after a call
SaveResearch ==
    /\ pc = "done"
    /\ op = "research"
    /\ trace[Len(trace)] # "save_research"
    /\ trace' = Append(trace, "save_research")
    /\ UNCHANGED <<cfg, others, evars, meter, research_history, stack, pc,
                   ret, rvars, research_data, argvars, loopvars, g_asked,
                   upstream, any_ok, retvars>>

\* research() called again and again on one agent, as the bot calls it, at
\* every depth; the history is saved now and then.  The engine has no Google
\* credentials and the DuckDuckGo provider answers the first attempt.
InitHistory ==
    /\ Fresh
    /\ metered = FALSE
    /\ use_ai = TRUE
    /\ preferred_engine = "auto"
    /\ google_api_key = NONE
    /\ google_cse_id = NONE

NextHistory ==
    \/ \E q \in Queries, dp \in Depths, pg \in 0..1 :
          Research(q, dp, FALSE, pg, DefaultSources, DefaultSources)
    \/ Search
    \/ SearchDuckDuckGo
    \/ \E h \in BudgetHits : DdgResponse(h, Min(d_max, h))
    \/ ResearchPage
    \/ \E o \in ScrapeOutcomes : Scrape(o)
    \/ \E t \in AnalysisTexts : Analyze(t)
    \/ SaveResearch
    \/ CallAgain

SpecHistory == InitHistory /\ [][NextHistory]_vars

\* searches one after the other on an engine without Google credentials
InitSeq ==
    /\ Fresh
    /\ metered = FALSE
    /\ use_ai = TRUE
    /\ google_api_key = NONE
    /\ google_cse_id = NONE

NextSeq ==
    \/ \E q \in Queries, m \in RetryMaxResults : CallSearch(q, m)
    \/ Search
    \/ SearchDuckDuckGo
    \/ \E h \in 0..MaxHits : DdgResponse(h, Min(d_max, h))
    \/ \E e \in DdgExceptions, j \in Jitters : DdgError(e, j)
    \/ CallAgain

SpecSeq == InitSeq /\ [][NextSeq]_vars

(***************************************************************************)
(* Two workers in _search_duckduckgo() of one engine.  The bot hands every *)
(* research to run_in_executor() on the agent get_agent() caches, so two   *)
(* requests of the same kind run on one SearchEngine at the same time.     *)
(* Each step below is one access to self._backend_idx or self.ddgs.        *)
(***************************************************************************)
single == <<cfg, meter, research_history, stack, pc, ret, rvars,
            research_data, argvars, loopvars, g_asked, upstream, any_ok,
            trace, retvars, calls, b_attempt, b_jitter, b_sleep, zvars, uvars>>

\* the DDGS objects the requests under way run on
Held == {t_client[t] : t \in Threads} \ {NoClient}

\* worker t returns from _search_duckduckgo(): its locals are gone
Leaves(t) ==
    /\ t_pc' = [t_pc EXCEPT ![t] = "done"]
    /\ t_attempt' = [t_attempt EXCEPT ![t] = 0]
    /\ t_backend' = [t_backend EXCEPT ![t] = ""]
    /\ t_client' = [t_client EXCEPT ![t] = NoClient]
    /\ t_own' = [t_own EXCEPT ![t] = 0]
    /\ t_mine' = [t_mine EXCEPT ![t] = NoClient]

\* worker t enters _search_duckduckgo()
T_Enter(t) ==
    /\ t_pc[t] = "idle"
    /\ t_pc' = [t_pc EXCEPT ![t] = "attempt"]
    /\ t_attempt' = [t_attempt EXCEPT ![t] = 0]
    /\ t_own' = [t_own EXCEPT ![t] = backend_idx]
    /\ t_mine' = [t_mine EXCEPT ![t] = ddgs]
    /\ UNCHANGED <<single, evars, t_backend, t_client, t_read, t_caught>>

\* lines 242-243: the backend is read and self.ddgs.text() is called
T_Request(t) ==
    /\ t_pc[t] = "attempt"
    /\ t_pc' = [t_pc EXCEPT ![t] = "waiting"]
    /\ t_backend' = [t_backend EXCEPT ![t] = Backend(backend_idx)]
    /\ t_client' = [t_client EXCEPT ![t] = ddgs]
    /\ UNCHANGED <<single, evars, t_attempt, t_read, t_caught, t_own, t_mine>>

\* the request of worker t is answered: it returns
T_Response(t) ==
    /\ t_pc[t] = "waiting"
    /\ Leaves(t)
    /\ UNCHANGED <<single, evars, t_read, t_caught>>

\* the request of worker t raises e; on a rate limit line 263 reads
\* self._backend_idx
T_Error(t, e) ==
    /\ t_pc[t] = "waiting"
    /\ DdgClause(e) # "uncaught"
    /\ LET out == Outcome(DdgClause(e), IsRateLimit(e))
       IN  /\ t_caught' = [t_caught EXCEPT ![t] = out]
           /\ t_pc' = [t_pc EXCEPT ![t] = IF out = "ratelimit" THEN "switch"
                                          ELSE "rebuild"]
           /\ t_own' = [t_own EXCEPT ![t] = IF out = "ratelimit"
                                            THEN NextBackend(@) ELSE @]
    /\ t_read' = [t_read EXCEPT ![t] = IF IsRateLimit(e) /\ DdgClause(e) = "ddg"
                                       THEN backend_idx ELSE @]
    /\ t_backend' = [t_backend EXCEPT ![t] = ""]
    /\ t_client' = [t_client EXCEPT ![t] = NoClient]
    /\ UNCHANGED <<single, evars, t_attempt, t_mine>>

\* line 263 writes self._backend_idx
T_Switch(t) ==
    /\ t_pc[t] = "switch"
    /\ t_pc' = [t_pc EXCEPT ![t] = "rebuild"]
    /\ backend_idx' = NextBackend(t_read[t])
    /\ t_read' = [t_read EXCEPT ![t] = 0]
    /\ UNCHANGED <<single, ddgs, t_attempt, t_backend, t_client, t_caught,
                   t_own, t_mine>>

\* lines 264-272: self.ddgs = self._make_ddgs(), then the next attempt or
\* the end of the loop
T_Rebuild(t) ==
    /\ t_pc[t] = "rebuild"
    /\ ddgs' = RebuiltAmong(ddgs,
                            Reconstructions("ddg", t_caught[t] = "ratelimit",
                                            t_attempt[t]),
                            Held)
    /\ t_caught' = [t_caught EXCEPT ![t] = ""]
    /\ IF Retries(t_attempt[t])
       THEN /\ t_pc' = [t_pc EXCEPT ![t] = "attempt"]
            /\ t_attempt' = [t_attempt EXCEPT ![t] = @ + 1]
            /\ t_mine' = [t_mine EXCEPT ![t] = ddgs']
            /\ UNCHANGED <<t_backend, t_client, t_own>>
       ELSE Leaves(t)
    /\ UNCHANGED <<single, backend_idx, t_read>>

InitThreads ==
    /\ Fresh
    /\ metered = FALSE
    /\ use_ai = TRUE
    /\ preferred_engine = "duckduckgo"
    /\ google_api_key = NONE
    /\ google_cse_id = NONE

NextThreads ==
    \E t \in Threads :
        \/ T_Enter(t)
        \/ T_Request(t)
        \/ T_Response(t)
        \/ \E e \in DdgExceptions : T_Error(t, e)
        \/ T_Switch(t)
        \/ T_Rebuild(t)

SpecThreads == InitThreads /\ [][NextThreads]_vars

\* the body of the loop over the raw hits of a provider, for one raw hit
\* with any of its keys missing or empty
AppendRecord ==
    /\ z_provider # ""
    /\ z_record = <<>>
    /\ z_record' = Normalize(z_provider, z_raw)
    /\ UNCHANGED <<cfg, evars, meter, research_history, stack, pc, ret, rvars,
                   research_data, argvars, loopvars, g_asked, upstream,
                   any_ok, trace, retvars, calls, b_attempt, b_jitter,
                   b_sleep, tvars, z_provider, z_raw, uvars>>

InitNormalize ==
    /\ Constructed
    /\ metered = FALSE
    /\ use_ai = TRUE
    /\ preferred_engine = "auto"
    /\ google_api_key = NONE
    /\ google_cse_id = NONE
    /\ b_attempt = 0 /\ b_jitter = 0 /\ b_sleep = 0
    /\ z_provider \in Providers
    /\ z_raw \in RawHits(z_provider)
    /\ z_record = <<>>
    /\ NoUpdate

NextNormalize == AppendRecord

SpecNormalize == InitNormalize /\ [][NextNormalize]_vars

(***************************************************************************)
(* bot.py: the handlers of the updates of one user.  The application      *)
(* handles one update after the other.                                     *)
(***************************************************************************)
\* init_user_data(): the defaults, for the keys that are not there
UserDefaults == [mode |-> "standard", search_engine |-> "auto", page |-> 0]

InitUserData(ud) ==
    [k \in DOMAIN ud \cup DOMAIN UserDefaults |->
        IF k \in DOMAIN ud THEN ud[k] ELSE UserDefaults[k]]

\* dict.update(new)
Update(ud, new) ==
    [k \in DOMAIN ud \cup DOMAIN new |->
        IF k \in DOMAIN new THEN new[k] ELSE ud[k]]

\* str.strip() of the texts of the messages
Texts == {"", " ", "a", "ai", " ml "}
Strip(text) ==
    CASE text = " " -> ""
      [] text = " ml " -> "ml"
      [] OTHER -> text

\* handle_query(): not query_text or len(query_text) < 2
Rejected(text) == Len(text) < 2

\* handle_query(): depth and news of a mode
DepthOf(mode) == IF mode = "deep" THEN "deep" ELSE "standard"
NewsOf(mode) == mode = "news"

\* button_callback(): max(0, page - 1)
PrevPage(pg) == Max(0, pg - 1)

\* mutant: page_prev stays on the page
MutNewPage(data, pg) == IF data = "page_next" THEN pg + 1 ELSE pg

\* button_callback(): the page after a page button
NewPage(data, pg) == IF data = "page_next" THEN pg + 1 ELSE PrevPage(pg)

\* the arguments of run_research()
RunResearch(q, dp, nw, pg, engine) ==
    [query |-> q, depth |-> dp, news |-> nw, sources |-> DefaultSources,
     page |-> pg, search_engine |-> engine]

\* the rest of the model is not touched by the bot
nobot == <<cfg, evars, meter, research_history, stack, pc, ret, rvars,
           research_data, argvars, loopvars, g_asked, upstream, any_ok,
           trace, retvars, calls, b_attempt, b_jitter, b_sleep, tvars, zvars>>

\* handle_text() and handle_query(): a text message
HandleText(text) ==
    /\ u_update' = "text:" \o text
    /\ IF Strip(text) = ""
       THEN UNCHANGED user_data /\ u_call' = NoCall
       ELSE LET ud == InitUserData(user_data)
                q == Strip(Strip(text))
            IN  IF Rejected(q)
                THEN user_data' = ud /\ u_call' = NoCall
                ELSE /\ user_data' =
                          Update(ud, [last_query |-> q,
                                      depth |-> DepthOf(ud.mode),
                                      news |-> NewsOf(ud.mode),
                                      page |-> 0])
                     /\ u_call' = RunResearch(q, DepthOf(ud.mode),
                                              NewsOf(ud.mode), 0,
                                              ud.search_engine)
    /\ UNCHANGED nobot

\* str.startswith(prefix)
StartsWith(str, prefix) ==
    /\ Len(str) >= Len(prefix)
    /\ SubSeq(str, 1, Len(prefix)) = prefix

\* button_callback(): a button that is not a page button
Buttons == {"noop", "help", "mode_standard", "mode_news", "mode_deep",
            "engine_auto", "engine_google", "engine_duckduckgo"}

Button(data) ==
    /\ u_update' = data
    /\ u_call' = NoCall
    /\ LET ud == InitUserData(user_data)
       IN  user_data' =
               CASE data = "noop" -> user_data
                 [] StartsWith(data, "mode_") ->
                        Update(ud, [mode |-> SubSeq(data, 6, Len(data))])
                 [] StartsWith(data, "engine_") ->
                        Update(ud, [search_engine |->
                                        SubSeq(data, 8, Len(data))])
                 [] OTHER -> ud
    /\ UNCHANGED nobot

\* button_callback(): page_next or page_prev
PageButton(data) ==
    /\ data \in {"page_next", "page_prev"}
    /\ u_update' = data
    /\ LET ud == InitUserData(user_data)
           old_page == Get(ud, "page", 0)
           new_page == NewPage(data, old_page)
       IN  /\ data = "page_next" => old_page < MaxBotPage
           /\ IF ~Truthy(Get(ud, "last_query", NONE))
                 \/ (old_page = 0 /\ data = "page_prev")
              THEN user_data' = ud /\ u_call' = NoCall
              ELSE /\ user_data' = Update(ud, [page |-> new_page])
                   /\ u_call' = RunResearch(ud.last_query,
                                            Get(ud, "depth", "standard"),
                                            Get(ud, "news", FALSE),
                                            new_page, ud.search_engine)
    /\ UNCHANGED nobot

InitBot ==
    /\ Fresh
    /\ metered = FALSE
    /\ use_ai = TRUE
    /\ preferred_engine = "auto"
    /\ google_api_key = NONE
    /\ google_cse_id = NONE

NextBot ==
    \/ \E text \in Texts : HandleText(text)
    \/ \E data \in Buttons : Button(data)
    \/ \E data \in {"page_next", "page_prev"} : PageButton(data)

SpecBot == InitBot /\ [][NextBot]_vars

\* _retry_backoff(attempt) alone: one call for each attempt number and each
\* jitter.
RetryBackoff ==
    /\ b_sleep = 0
    /\ b_sleep' = BackoffDelay(b_attempt, b_jitter)
    /\ UNCHANGED <<cfg, evars, meter, research_history, stack, pc, ret, rvars,
                   research_data, argvars, loopvars, g_asked, upstream,
                   any_ok, trace, retvars, calls, b_attempt, b_jitter,
                   tvars, zvars, uvars>>

InitBackoff ==
    /\ Constructed
    /\ metered = FALSE
    /\ use_ai = TRUE
    /\ preferred_engine = "auto"
    /\ google_api_key = NONE
    /\ google_cse_id = NONE
    /\ b_attempt \in 0..MaxBackoffAttempt
    /\ b_jitter \in Jitters
    /\ b_sleep = 0
    /\ NoHit
    /\ NoUpdate

NextBackoff == RetryBackoff

SpecBackoff == InitBackoff /\ [][NextBackoff]_vars

(***************************************************************************)
(* Properties                                                              *)
(***************************************************************************)
Called(f) == \E k \in 1..Len(trace) : trace[k] = f
CountCalls(f) == Cardinality({k \in 1..Len(trace) : trace[k] = f})
FirstPos(f) == CHOOSE k \in 1..Len(trace) :
                  trace[k] = f /\ \A j \in 1..(k - 1) : trace[j] # f
HasKey == google_api_key # NONE /\ google_api_key # ""
HasCse == google_cse_id # NONE /\ google_cse_id # ""
InGoogle == pc \in {"_search_google", "google_request", "google_ret"}

\* C1: with preferred engine 'duckduckgo' no search() or news_search() call
\* ever enters the Google client, whatever the credentials and whatever the
\* fallback does (exhausted retries included).
C1_FallbackModeNeverCallsPrimary ==
    preferred_engine = "duckduckgo" =>
        /\ ~Called("_search_google")
        /\ ~InGoogle
        /\ google_results = <<>>

\* witness of C1: valid credentials, mode duckduckgo, news and text searches
\* both exhausted
C1_Witness ==
    /\ preferred_engine = "duckduckgo"
    /\ google_api_key = "AIzaKey" /\ google_cse_id = "017:cx"
    /\ op = "news_search"
    /\ pc = "done"
    /\ Called(NewsFailedLog) /\ Called(SearchFailedLog)

\* C2: in mode auto with credentials configured, once the Google client has
\* returned a non-empty result the DuckDuckGo client is not called and
\* search() returns exactly that result.
C2_AutoPrimaryAnswerIsReturned ==
    (preferred_engine = "auto" /\ HasKey /\ HasCse /\ Len(google_results) > 0) =>
        /\ ~Called("_search_duckduckgo")
        /\ pc \notin {"_search_duckduckgo", "ddg_attempt"}
        /\ (pc = "news_generic" => generic = google_results)
        /\ (pc = "done" => ret = google_results)

C2_Witness ==
    /\ preferred_engine = "auto" /\ HasKey /\ HasCse
    /\ op = "search"
    /\ pc = "done"
    /\ Len(google_results) > 0
    /\ ret = google_results

\* C3: in mode auto or google with credentials configured, when the Google
\* client returned an empty result, search() calls the DuckDuckGo client
\* exactly once, after the Google client returned, and returns what that
\* client returns (records of the DuckDuckGo provider, or nothing).
C3_EmptyPrimaryFallsBackOnce ==
    (/\ preferred_engine \in {"auto", "google"} /\ HasKey /\ HasCse
     /\ Called("ret:_search_google") /\ Len(google_results) = 0
     /\ pc \notin {"google_ret", "raised"}) =>
        /\ CountCalls("_search_duckduckgo") = 1
        /\ CountCalls("_search_google") = 1
        /\ FirstPos("_search_duckduckgo") = FirstPos("ret:_search_google") + 1
        /\ (Called("ret:search") =>
               LET v == IF Called(NewsFailedLog) THEN generic ELSE ret
               IN  /\ v = NormalizeAllDdg(SubSeq(DdgHits, 1, Len(v)))
                   /\ (Called(SearchFailedLog) => v = <<>>))

C3_Witness ==
    /\ preferred_engine = "google" /\ HasKey /\ HasCse
    /\ op = "search"
    /\ pc = "done"
    /\ Called("ret:_search_google") /\ Len(google_results) = 0
    /\ CountCalls("_search_duckduckgo") = 1
    /\ Len(ret) > 0

\* C4: in modes google and auto the Google client is entered only when both
\* credentials are configured; when one is missing, search() goes straight
\* to the DuckDuckGo client.
C4_PrimaryOnlyWhenConfigured ==
    preferred_engine \in {"auto", "google"} =>
        /\ (Called("_search_google") \/ InGoogle => HasKey /\ HasCse)
        /\ (~(HasKey /\ HasCse) =>
               \A k \in 1..(Len(trace) - 1) :
                   trace[k] = "search" => trace[k + 1] = "_search_duckduckgo")

C4_Witness ==
    /\ preferred_engine = "google"
    /\ HasKey /\ ~HasCse
    /\ op = "search"
    /\ pc = "done"
    /\ trace[2] = "_search_duckduckgo"
    /\ Len(ret) > 0

\* C5: no provider failure makes search() or news_search() raise: the call
\* returns a list, and the empty list when no request of any provider it
\* tried succeeded.
C5_FailuresBecomeEmptyResults ==
    /\ pc # "raised"
    /\ ~Called("raise")
    /\ (pc = "done" => DOMAIN ret = 1..Len(ret))
    /\ (pc = "done" /\ ~any_ok => ret = <<>>)

\* witness of C5: news, Google and DuckDuckGo were all tried and all failed
C5_Witness ==
    /\ op = "news_search"
    /\ preferred_engine = "auto"
    /\ google_api_key = "AIzaKey" /\ google_cse_id = "017:cx"
    /\ pc = "done"
    /\ ~any_ok
    /\ Called(NewsFailedLog) /\ Called("ret:_search_google")
    /\ Called(SearchFailedLog)
    /\ ret = <<>>

\* C6: for max_results in 1..20, a search() call that returns holds at most
\* max_results records, however many hits the provider handed back.
C6_AtMostMaxResults ==
    (pc = "done" /\ op = "search" /\ s_max \in 1..ResultCap) =>
        Len(ret) <= s_max

\* C7: the search_results of research() are the records of the fetched list
\* at positions [page*per_page, page*per_page + per_page), in order: their
\* number is min(per_page, max(0, len(all) - page*per_page)), never more
\* than per_page.
C7_PageIsTheSliceOfTheFetchedList ==
    (pc = "done" /\ op = "research") =>
        LET rd == research_data
            first == rd.page * rd.per_page
            n == Min(rd.per_page, Max(0, Len(ret) - first))
        IN  /\ rd.page >= 0 /\ rd.per_page > 0
            /\ Len(rd.search_results) = n
            /\ n <= rd.per_page
            /\ \A i \in 1..n : rd.search_results[i] = ret[first + i]

\* witness of C7: page 2 of 3 per page out of 9 fetched records is items[6:9]
C7_Witness ==
    /\ pc = "done" /\ op = "research"
    /\ research_data.page = 2 /\ research_data.per_page = 3
    /\ Len(ret) = 9
    /\ research_data.search_results = <<ret[7], ret[8], ret[9]>>
    /\ ~research_data.has_more

\* C8: has_more of research() equals (number of fetched records >
\* (page+1)*per_page); it is false for an empty fetched list and for one
\* shorter than page*per_page.
C8_HasMoreIsLenBeyondPage ==
    (pc = "done" /\ op = "research") =>
        LET rd == research_data
        IN  rd.has_more = (Len(ret) > (rd.page + 1) * rd.per_page)

\* witness of C8: a non-empty fetched list that ends before the page starts
C8_Witness ==
    /\ pc = "done" /\ op = "research"
    /\ Len(ret) > 0
    /\ Len(ret) < research_data.page * research_data.per_page
    /\ ~research_data.has_more

\* C9: research() asks for at least per_page*(page+2) and at least
\* per_page*3 results, and whenever the provider that answered holds more
\* than (page+1)*per_page results for the query, has_more is true.
C9_HasMoreReflectsAvailability ==
    (pc = "done" /\ op = "research") =>
        /\ fetch_n >= per_page * (page + 2)
        /\ fetch_n >= per_page * 3
        /\ (upstream > (page + 1) * per_page => research_data.has_more)

\* C10: news_search() calls the generic search only after its attempts are
\* exhausted, then exactly once, with the query followed by " news", and
\* returns what that search returned; it does not raise.
C10_NewsExhaustionFallsBackToGenericSearch ==
    op = "news_search" =>
        /\ pc # "raised"
        /\ (Called("search") => Called(NewsFailedLog))
        /\ (Called(NewsFailedLog) =>
              /\ (pc = "news_fallback" => ~Called("search"))
              /\ (pc # "news_fallback" =>
                    /\ CountCalls("search") = 1
                    /\ trace[FirstPos(NewsFailedLog) + 1] = "search"
                    /\ s_query = n_query \o " news")
              /\ (pc = "done" => Called("ret:search") /\ ret = generic))

\* witness of C10: exhausted news attempts, the generic search found records
C10_Witness ==
    /\ op = "news_search"
    /\ pc = "done"
    /\ Called(NewsFailedLog)
    /\ s_query = "ai news"
    /\ Len(ret) > 0
    /\ ret = generic

(***************************************************************************)
(* The retry loops                                                         *)
(***************************************************************************)
\* the attempts with that outcome, and the attempts followed by that sleep
AttemptsEnding(out) == {i \in 1..Len(attempts) : attempts[i].out = out}
AttemptsSleeping(kind) == {i \in 1..Len(attempts) : attempts[i].sleep = kind}

\* the first k attempts hit a rate limit and attempt k+1 succeeded
RateLimitedThenOk(k) ==
    /\ Len(attempts) = k + 1
    /\ \A i \in 1..k : attempts[i].out = "ratelimit"
    /\ attempts[k + 1].out = "ok"

\* C11: when the first k attempts (0 <= k <= 4) of the DuckDuckGo client hit
\* a rate limit and the next attempt succeeds with n hits, the search returns
\* exactly these n hits, normalized; the backend index is k slots further in
\* the rotation of 3; and exactly k sleeps were made, all of them backoffs.
C11_RateLimitsThenSuccess ==
    \A k \in 0..(RetryAttempts - 1) :
        (pc = "done" /\ RateLimitedThenOk(k)) =>
            /\ Len(ret) = attempts[k + 1].got
            /\ ret = NormalizeAllDdg(SubSeq(DdgHits, 1, attempts[k + 1].got))
            /\ backend_idx = (attempts[1].idx + k) % Len(Backends)
            /\ \A i \in 1..(k + 1) :
                   attempts[i].idx = (attempts[1].idx + i - 1) % Len(Backends)
            /\ AttemptsSleeping("backoff") = 1..k
            /\ AttemptsSleeping("fixed") = {}

\* witness of C11: max_results 5, a rate limit on attempt 0, three hits on
\* attempt 1
C11_Witness ==
    /\ pc = "done" /\ op = "search" /\ s_max = 5
    /\ RateLimitedThenOk(1)
    /\ Len(ret) = 3
    /\ backend_idx = 1
    /\ AttemptsSleeping("backoff") = {1}

\* C17: one call of the DuckDuckGo client makes at most 5 requests; the first
\* attempt that does not fail is the last one: the call returns its hits,
\* normalized, without a sleep and without another request.
C17_FiveRequestsAndStopAtSuccess ==
    /\ Len(attempts) <= RetryAttempts
    /\ \A i \in AttemptsEnding("ok") :
           /\ i = Len(attempts)
           /\ attempts[i].sleep = "none"
           /\ pc = "done"
           /\ Len(ret) = attempts[i].got
           /\ ret = NormalizeAllDdg(SubSeq(DdgHits, 1, attempts[i].got))

\* witness of C17: four attempts fail, the fifth request succeeds with hits
C17_Witness ==
    /\ pc = "done"
    /\ Len(attempts) = RetryAttempts
    /\ attempts[RetryAttempts].out = "ok"
    /\ Len(ret) > 0

\* the attempts that failed without a rate limit
OtherFailures == AttemptsEnding("provider_error") \cup AttemptsEnding("exception")

\* C18: in the DuckDuckGo client a failure that is not a rate limit leaves
\* the backend index as it is and builds a new client; when an attempt is
\* left it sleeps the fixed 1 second, never a backoff, and the next attempt
\* runs on the same backend with the new client.
C18_OtherFailureKeepsBackend ==
    \A i \in OtherFailures :
        /\ attempts[i].sleep = IF i < RetryAttempts THEN "fixed" ELSE "none"
        /\ i < Len(attempts) =>
               /\ attempts[i + 1].idx = attempts[i].idx
               /\ attempts[i + 1].client # attempts[i].client
        /\ i = Len(attempts) =>
               /\ backend_idx = attempts[i].idx
               /\ ddgs # attempts[i].client
               /\ i < RetryAttempts =>
                      /\ pc = "ddg_attempt"
                      /\ d_attempt = i
                      /\ slept = HalfSeconds(1)

\* witness of C18: a provider error without a rate limit and a timeout, each
\* followed by another attempt
C18_Witness ==
    /\ \E i \in AttemptsEnding("provider_error") : i < Len(attempts)
    /\ \E i \in AttemptsEnding("exception") : i < Len(attempts)

\* the attempts of news_search(): they come before those of its fallback
NewsAttempts == {i \in 1..Len(attempts) : attempts[i].fn = "news"}

\* C19: news_search() makes at most 5 requests and returns at the first one
\* that does not fail; a failed attempt that is followed by a retry is
\* followed by a _retry_backoff(attempt) sleep, whether it was a rate limit,
\* another provider error or any other exception; the fixed 1 second is
\* never slept.
C19_NewsAlwaysBacksOff ==
    /\ NewsAttempts \subseteq 1..RetryAttempts
    /\ AttemptsSleeping("fixed") = {}
    /\ \A i \in NewsAttempts :
           IF attempts[i].out = "ok"
           THEN /\ i = Len(attempts)
                /\ attempts[i].sleep = "none"
                /\ pc = "done"
                /\ ret = NormalizeAllNews(SubSeq(NewsHits, 1, attempts[i].got))
           ELSE /\ attempts[i].sleep = IF i < RetryAttempts THEN "backoff"
                                       ELSE "none"
                /\ (i = Len(attempts) /\ i < RetryAttempts) =>
                       /\ pc = "news_attempt"
                       /\ n_attempt = i
                       /\ slept \in {BackoffDelay(i - 1, j) : j \in Jitters}
                       /\ slept # HalfSeconds(1) \/ i = 1

\* witness of C19: a rate limit, a provider error and a timeout, each
\* followed by a backoff, then a success
C19_Witness ==
    /\ pc = "done" /\ op = "news_search"
    /\ Len(attempts) = 4
    /\ {attempts[i].out : i \in 1..3} =
           {"ratelimit", "provider_error", "exception"}
    /\ \A i \in 1..3 : attempts[i].fn = "news" /\ attempts[i].sleep = "backoff"
    /\ attempts[4].out = "ok" /\ attempts[4].fn = "news"
    /\ Len(ret) > 0

\* C12: the sleep of _retry_backoff(attempt) is max(1, min(16, 2^attempt) +
\* jitter) with a jitter within half a second either way, so it is at least
\* 1 second and at most 16.5 seconds (2 and 33 half seconds) for every
\* attempt >= 0.
C12_BackoffDelayInRange ==
    b_sleep # 0 =>
        LET base == IF 2 ^ b_attempt < 16 THEN 2 ^ b_attempt ELSE 16
            raw == 2 * base + b_jitter
        IN  /\ b_jitter \in -1..1
            /\ b_sleep = IF raw < 2 THEN 2 ELSE raw
            /\ b_sleep >= 2
            /\ b_sleep <= 33

\* witnesses of C12: the floor of one second is hit at attempt 0 with the
\* lowest jitter; the cap of 16 seconds with the highest jitter gives 16.5
C12_Witness ==
    \/ b_attempt = 0 /\ b_jitter = -1 /\ b_sleep = 2
    \/ b_attempt = 5 /\ b_jitter = 1 /\ b_sleep = 33

(***************************************************************************)
(* The sizes of the requests                                               *)
(***************************************************************************)
RECURSIVE SumOf(_, _)
SumOf(f, n) == IF n = 0 THEN 0 ELSE f[n] + SumOf(f, n - 1)

\* what the first n requests of _search_google() asked for and got
GoogleAsked(n) == SumOf([i \in 1..Len(g_asked) |-> g_asked[i].num], n)
GoogleGot(n) == SumOf([i \in 1..Len(g_asked) |-> g_asked[i].got], n)

\* C13: max_results is clamped to 1..20: whatever max_results search() or
\* news_search() is called with, each provider that gets requests is asked
\* for between 1 and 20 results in total, and the call returns at most 20
\* records.
C13_MaxResultsClampedTo20 ==
    /\ (Len(g_asked) > 0 => GoogleAsked(Len(g_asked)) \in 1..ResultCap)
    /\ (pc = "ddg_attempt" => d_max \in 1..ResultCap)
    /\ (pc = "news_attempt" => n_max \in 1..ResultCap)
    /\ (pc = "done" => Len(ret) <= ResultCap)

\* C20: one fetch of the Google client makes at most 3 requests and at most
\* ceil(max_results / 10); each asks for 1 to 10 items; no request follows a
\* page without items or the request that completed max_results records;
\* and what the client returns are the records collected so far, cut to
\* max_results.
C20_GoogleRequestsBounded ==
    LET n == Len(g_asked)
    IN  /\ n <= 3
        /\ 10 * n < g_max + 10
        /\ \A i \in 1..n : g_asked[i].num \in 1..10
        /\ \A i \in 1..(n - 1) :
               /\ g_asked[i].out = "ok"
               /\ g_asked[i].got > 0
               /\ GoogleGot(i) < g_max
        /\ (pc = "google_ret" /\ n > 0 /\ g_asked[n].out = "ok") =>
               /\ Len(google_results) = Min(GoogleGot(n), g_max)
               /\ google_results =
                      NormalizeAllGoogle(SubSeq(GoogleItems, 1,
                                                Len(google_results)))

\* witness of C20: 11 wanted, 10 and then 1 asked for, the provider has them
C20_Witness ==
    /\ pc = "google_ret"
    /\ g_max = 11
    /\ Len(g_asked) = 2
    /\ g_asked[1].num = 10 /\ g_asked[2].num = 1
    /\ Len(google_results) = 11

(***************************************************************************)
(* The depth of research()                                                 *)
(***************************************************************************)
Positions(f) == {k \in 1..Len(trace) : trace[k] = f}
HasAnalysis == "analysis" \in DOMAIN research_data
ResearchedPage ==
    pc = "done" /\ op = "research" /\ Len(research_data.search_results) > 0

\* what C14 says of 'quick' and 'standard', and of the order of the steps
DepthQuickStandardAndOrder ==
    LET rd == research_data
        n == Len(rd.search_results)
        urls == {rd.search_results[i].url : i \in 1..n}
    IN  /\ depth = "quick" =>
              /\ Positions("scrape_url") = {}
              /\ rd.sources = <<>>
              /\ Positions("_analyze_with_ai") = {} /\ ~HasAnalysis
        /\ depth = "standard" =>
              /\ Cardinality(Positions("scrape_url")) = n
              /\ Positions("_analyze_with_ai") = {} /\ ~HasAnalysis
        /\ depth = "deep" => Cardinality(Positions("scrape_url")) = n
        /\ Len(rd.sources) <= n
        /\ \A i \in 1..Len(rd.sources) : rd.sources[i].url \in urls
        /\ \A k \in Positions("scrape_url") :
              /\ \E r \in Positions("ret:search") : r < k
              /\ \A a \in Positions("_analyze_with_ai") : k < a
        /\ \A a \in Positions("_analyze_with_ai") :
              \E r \in Positions("ret:search") : r < a

\* C14 as claimed: research() follows depth whenever the page has results:
\* 'quick' only searches, 'standard' scrapes every result of the page and
\* adds no analysis, 'deep' scrapes and then adds an 'analysis' entry; the
\* steps run in the order search, scrape, analysis.
C14_DepthDecidesTheSteps ==
    ResearchedPage =>
        /\ DepthQuickStandardAndOrder
        /\ depth = "deep" =>
              Cardinality(Positions("_analyze_with_ai")) = 1 /\ HasAnalysis

\* C14 amended: as claimed, except that 'deep' adds the 'analysis' entry
\* only on an agent built with use_ai true; with use_ai false 'deep' does
\* what 'standard' does.
C14_DeepAnalyzesOnlyWithUseAi ==
    ResearchedPage =>
        /\ DepthQuickStandardAndOrder
        /\ (depth = "deep" /\ use_ai) =>
              Cardinality(Positions("_analyze_with_ai")) = 1 /\ HasAnalysis
        /\ (depth = "deep" /\ ~use_ai) =>
              Positions("_analyze_with_ai") = {} /\ ~HasAnalysis

\* witness of C14: a deep research on an agent without use_ai scraped its
\* two results, one of them with success, and has no analysis
C14_Witness ==
    /\ ResearchedPage
    /\ depth = "deep" /\ ~use_ai
    /\ Len(research_data.search_results) = 2
    /\ Cardinality(Positions("scrape_url")) = 2
    /\ Len(research_data.sources) = 1
    /\ ~HasAnalysis

(***************************************************************************)
(* What a call keeps for itself                                            *)
(***************************************************************************)
\* C15: the retry state is scoped to one call: the backend and the client of
\* the first attempt of a DuckDuckGo search are those of an engine that has
\* made no search before, whatever happened in earlier calls.
C15_FirstAttemptIgnoresEarlierCalls ==
    (pc = "ddg_attempt" /\ d_attempt = 0) =>
        /\ Backend(backend_idx) = "api"
        /\ ddgs = 0

\* C16: searches that run at the same time share no mutable state: the
\* backend and the client of every request of a worker are those its own
\* failures have led to, whatever the other worker does meanwhile.
C16_WorkersShareNoState ==
    \A t \in Threads :
        t_pc[t] = "waiting" =>
            /\ t_backend[t] = Backend(t_own[t])
            /\ t_client[t] = t_mine[t]

(***************************************************************************)
(* The Google client                                                       *)
(***************************************************************************)
\* the CSE id is the text of the configuration template, in any case
PlaceholderCse == Lower(google_cse_id) = "your_custom_search_engine_id_here"

\* C21: _search_google() makes no HTTP request and returns the empty list
\* whenever the API key or the CSE id is absent, or the CSE id is the
\* placeholder of the configuration template.
C21_NoRequestWithoutCredentials ==
    (op = "_search_google" /\ pc # "_search_google"
        /\ (google_api_key = NONE \/ google_cse_id = NONE \/ PlaceholderCse)) =>
        /\ g_asked = <<>>
        /\ pc \in {"google_ret", "done"}
        /\ google_results = <<>>
        /\ pc = "done" => ret = <<>>

\* witness of C21: the call with the placeholder CSE id and a key has
\* returned
C21_Witness ==
    /\ op = "_search_google" /\ pc = "done"
    /\ google_api_key # NONE /\ PlaceholderCse
    /\ g_max > 0
    /\ g_asked = <<>> /\ ret = <<>>

(***************************************************************************)
(* The records                                                             *)
(***************************************************************************)
\* the key of the raw hit a key of the record is read from, or the two keys
\* it may be read from
ReadFrom(provider, key) ==
    CASE key = "url" /\ provider = "google" -> {"link"}
      [] key = "url" /\ provider = "text" -> {"href", "url"}
      [] key = "snippet" /\ provider # "google" -> {"body", "snippet"}
      [] OTHER -> {key}

\* C22: the record built from any raw hit of any provider has every key of
\* its shape, each value is a string (never None), and a key that is
\* missing in the raw hit gives the empty string.
C22_MissingFieldsBecomeEmpty ==
    z_record # <<>> =>
        /\ DOMAIN z_record = RecordKeys(z_provider)
        /\ \A key \in DOMAIN z_record :
               /\ z_record[key] # NONE
               /\ z_record[key] \in STRING
               /\ ReadFrom(z_provider, key) \cap DOMAIN z_raw = {} =>
                      z_record[key] = ""

(***************************************************************************)
(* The retry budget of a call                                              *)
(***************************************************************************)
\* the call is over: it returned, or an exception no handler catches left it
Over == pc \in {"done", "raised"}

\* the requests made so far are within the budget: each iteration of a loop
\* makes one request, and each function is entered once at most
WithinBudget ==
    /\ CountCalls("news_search") <= 1
    /\ pc = "news_attempt" => n_attempt + 1 <= 5
    /\ CountCalls("_search_google") <= 1
    /\ pc = "google_request" => g_i + 1 <= 3
    /\ CountCalls("_search_duckduckgo") <= 1
    /\ pc = "ddg_attempt" => d_attempt + 1 <= 5

\* C23: whatever the providers do, a call of search() or news_search() makes
\* at most 5 news attempts, one Google fetch of at most 3 requests and 5
\* DuckDuckGo text attempts, and it comes to an end.
C23_BoundedRetryBudget == []WithinBudget /\ <>Over

\* witness of C23: news_search() used up the whole budget: the news attempts
\* failed, the Google fetch of the fallback search gave nothing and the text
\* attempts failed
C23_Witness ==
    /\ pc = "done" /\ op = "news_search"
    /\ Called(NewsFailedLog)
    /\ Called("_search_google")
    /\ Called(SearchFailedLog)
    /\ ret = <<>>

(***************************************************************************)
(* News requests                                                           *)
(***************************************************************************)
\* the call is a news request
NewsRequest == op = "news_search" \/ (op = "research" /\ news)

\* the functions of the generic search
GenericSearch == {"search", "_search_google", "_search_duckduckgo"}

\* C24: in every mode and with every configuration a news request goes to
\* news_search() first; search() and its clients are not called before the
\* 5 news attempts have all failed.
C24_NewsPathFirstInEveryMode ==
    (NewsRequest /\ pc # "idle") =>
        /\ trace[1] = "news_search"
        /\ (\E k \in 1..Len(trace) : trace[k] \in GenericSearch) =>
               /\ NewsAttempts = 1..5
               /\ \A i \in NewsAttempts : attempts[i].out # "ok"
               /\ \A k \in 1..Len(trace) :
                      trace[k] \in GenericSearch => k > FirstPos(NewsFailedLog)

\* witness of C24: in mode 'google' with both credentials a news request
\* of research() ended in the Google client, after 5 failed news attempts
C24_Witness ==
    /\ op = "research" /\ news
    /\ preferred_engine = "google"
    /\ google_api_key = "AIzaKey" /\ google_cse_id = "017:cx"
    /\ NewsAttempts = 1..5
    /\ Called("_search_google")
    /\ pc = "done"
    /\ Len(research_data.search_results) > 0

(***************************************************************************)
(* The pages of the bot                                                    *)
(***************************************************************************)
\* what the handlers read from user_data: the page and the last query
StoredPage == Get(user_data, "page", 0)
StoredQuery == Get(user_data, "last_query", NONE)

\* the same, after the step
StoredPageAfter == Get(user_data', "page", 0)
StoredQueryAfter == Get(user_data', "last_query", NONE)

\* a step of the bot changes neither the page nor the query and starts no
\* research
NothingHappens ==
    /\ StoredPageAfter = StoredPage
    /\ StoredQueryAfter = StoredQuery
    /\ u_call' = NoCall

PageSteps ==
    /\ (\E text \in Texts : u_update' = "text:" \o text
                            /\ Len(Strip(text)) >= 2) =>
           /\ StoredPageAfter = 0
           /\ u_call'.page = 0
    /\ (u_update' = "page_next" /\ StoredQuery # NONE) =>
           /\ StoredPageAfter = StoredPage + 1
           /\ u_call'.page = StoredPage + 1
    /\ (u_update' = "page_prev" /\ StoredQuery # NONE /\ StoredPage > 0) =>
           /\ StoredPageAfter = StoredPage - 1
           /\ u_call'.page = StoredPage - 1
    /\ (u_update' = "page_prev" /\ StoredPage = 0) => NothingHappens
    /\ (u_update' \in {"page_next", "page_prev"} /\ StoredQuery = NONE) =>
           NothingHappens

\* C25: the stored page of a user is never negative; a query sets it to 0,
\* page_next adds 1, page_prev takes 1 off a page above 0, and page_prev on
\* page 0, or a page button before the first query, changes neither the
\* page nor the query and starts no research.
C25_PageNeverNegative == [](StoredPage >= 0) /\ [][PageSteps]_vars

\* witness of C25: back on page 0 by page_prev, after a page_next
C25_Witness ==
    /\ u_update = "page_prev"
    /\ StoredPage = 0
    /\ u_call # NoCall /\ u_call.page = 0
    /\ StoredQuery = "ml"

(***************************************************************************)
(* The modes of search()                                                   *)
(***************************************************************************)
IsClient(f) == f \in {"_search_google", "_search_duckduckgo"}

\* the clients search() called, in the order of the calls
ClientsCalled == SelectSeq(trace, IsClient)

\* what the last attempt of the DuckDuckGo client came to
DdgReturned ==
    IF attempts # <<>> /\ attempts[Len(attempts)].out = "ok"
    THEN NormalizeAllDdg(Hits(DdgHits, 1, attempts[Len(attempts)].got))
    ELSE <<>>

\* the Google client was called and returned records
PrimaryAnswered ==
    GoogleConfigured(google_api_key, google_cse_id) /\ NonEmpty(google_results)

\* C26: whether the mode is 'google', 'auto' or a string search() does not
\* know, the clients a search() call invokes, their order and the result it
\* returns are given by the credentials and by what the providers did alone:
\* the Google client first when both credentials are set, the DuckDuckGo
\* client when Google was not called or returned nothing, and the result of
\* the last client called.
C26_GoogleAndAutoAreOneMode ==
    (op = "search" /\ pc = "done" /\ preferred_engine # "duckduckgo") =>
        /\ ClientsCalled =
               (IF GoogleConfigured(google_api_key, google_cse_id)
                THEN <<"_search_google">> ELSE <<>>)
               \o (IF PrimaryAnswered THEN <<>> ELSE <<"_search_duckduckgo">>)
        /\ ret = IF PrimaryAnswered THEN google_results ELSE DdgReturned

\* witness of C26: mode 'google' without the search-scope id went straight
\* to the DuckDuckGo client, as mode 'auto' does
C26_Witness ==
    /\ preferred_engine = "google"
    /\ HasKey /\ ~HasCse
    /\ op = "search" /\ pc = "done"
    /\ ClientsCalled = <<"_search_duckduckgo">>
    /\ Len(ret) > 0

(***************************************************************************)
(* Five rate limits in a row                                               *)
(***************************************************************************)
\* every attempt of the DuckDuckGo client has hit a rate limit
AllRateLimited ==
    /\ Len(attempts) = RetryAttempts
    /\ \A i \in 1..RetryAttempts :
           attempts[i].fn = "text" /\ attempts[i].out = "ratelimit"

\* the client has slept a backoff and is about to make its next attempt
BackedOff ==
    /\ pc = "ddg_attempt"
    /\ d_attempt > 0
    /\ Len(attempts) = d_attempt
    /\ attempts[d_attempt].sleep = "backoff"

\* C27: when the 5 attempts of the DuckDuckGo client all hit a rate limit,
\* every failure moves the backend index one slot on, so that it ends 5 slots
\* after its start in the rotation of 3 and stays within 0..2; the first 4
\* failures are followed by a backoff and the last by no sleep; a backoff
\* inside a search is that of attempt 0..3 and lasts at most 8.5 seconds (17
\* half seconds).
C27_FiveRateLimitsFourBackoffs ==
    /\ backend_idx \in 0..2
    /\ BackedOff =>
           /\ d_attempt - 1 \in 0..3
           /\ slept >= 2 * (2 ^ (d_attempt - 1)) - 1
           /\ slept <= 2 * (2 ^ (d_attempt - 1)) + 1
           /\ slept <= 17
    /\ (pc = "done" /\ AllRateLimited) =>
           /\ \A i \in 1..RetryAttempts :
                  attempts[i].idx = (attempts[1].idx + i - 1) % 3
           /\ backend_idx = (attempts[1].idx + 5) % 3
           /\ AttemptsSleeping("backoff") = 1..4
           /\ attempts[RetryAttempts].sleep = "none"
           /\ ret = <<>>

\* witness of C27: a search that started on the second backend was rate
\* limited 5 times
C27_Witness ==
    /\ pc = "done" /\ AllRateLimited
    /\ attempts[1].idx = 1
    /\ backend_idx = 0
    /\ AttemptsSleeping("backoff") = 1..4

(***************************************************************************)
(* The dict research() returns                                             *)
(***************************************************************************)
\* research() has returned research_data
ResearchReturned == pc = "done" /\ op = "research"

\* C28: in every dict research() returns, the 'error' entry is there, with
\* 'No search results found', exactly when search_results is empty, and then
\* sources is empty and nothing was scraped or analysed; has_more true
\* implies that search_results holds exactly per_page records; and sources
\* never holds more entries than search_results.
C28_ReturnedDictIsConsistent ==
    ResearchReturned =>
        LET rd == research_data
            n == Len(rd.search_results)
        IN  /\ ("error" \in DOMAIN rd) <=> (n = 0)
            /\ n = 0 =>
                   /\ rd.error = "No search results found"
                   /\ rd.sources = <<>>
                   /\ "analysis" \notin DOMAIN rd
                   /\ ~Called("scrape_url") /\ ~Called("_analyze_with_ai")
            /\ rd.has_more => n = rd.per_page
            /\ Len(rd.sources) <= n
            /\ research_history[Len(research_history)] = rd

\* witness of C28: a deep research on an agent with use_ai asked for the
\* second page of a result list that ends on the first
C28_Witness ==
    /\ ResearchReturned
    /\ depth = "deep" /\ use_ai
    /\ research_data.page = 1
    /\ Len(ret) > 0
    /\ research_data.search_results = <<>>
    /\ research_data.error = "No search results found"
    /\ ~research_data.has_more

(***************************************************************************)
(* A failed request of the Google client                                   *)
(***************************************************************************)
\* the last request of the Google client failed
GoogleFailed == Len(g_asked) > 0 /\ g_asked[Len(g_asked)].out = "error"

\* C29: when one of the at most 3 requests of the Google client fails, by
\* HTTP 429, another HTTP error or a transport error, the client returns
\* the empty list, whatever the requests before it had collected, and
\* search() calls the DuckDuckGo client next.
C29_FailedRequestDropsTheRecords ==
    GoogleFailed =>
        /\ Len(g_asked) <= GoogleMaxRequests
        /\ preferred_engine \in {"google", "auto"}
        /\ pc # "google_request"
        /\ google_results = <<>>
        /\ pc # "google_ret" =>
               /\ CountCalls("_search_duckduckgo") = 1
               /\ FirstPos("_search_duckduckgo") =
                      FirstPos("ret:_search_google") + 1
        /\ (pc = "done" /\ op = "search") => ret = DdgReturned

\* witness of C29: in mode 'google' the first request got its 10 records,
\* the second failed, and the DuckDuckGo client answered the search
C29_Witness ==
    /\ preferred_engine = "google"
    /\ pc = "done" /\ op = "search"
    /\ Len(g_asked) = 2
    /\ g_asked[1].out = "ok" /\ g_asked[1].got = GooglePageSize
    /\ g_asked[2].out = "error"
    /\ CountCalls("_search_duckduckgo") = 1
    /\ Len(ret) > 0

(***************************************************************************)
(* The history of an agent                                                 *)
(***************************************************************************)
\* a research() call returns in this step
ResearchReturns == pc # "done" /\ pc' = "done" /\ op' = "research"

\* a step changes the history only as a returning research() call that adds
\* the dict it returns at the end, and every returning call does so
HistorySteps ==
    /\ ResearchReturns =>
           research_history' = Append(research_history, research_data')
    /\ ~ResearchReturns => research_history' = research_history

====
